---- MODULE Spec2Model ----
(***************************************************************************)
(* Paper Processor (Obsidian plugin): the document chunker, the page-by-   *)
(* page translation stage, the usage ledger and the sequential blog stage. *)
(*                                                                         *)
(* Text is a sequence of one-character strings.  Regular expressions are   *)
(* syntax trees matched by a backtracking matcher that returns the end     *)
(* positions in the priority order of the JavaScript engine, so the first  *)
(* one is the match exec() and test() use.                                 *)
(***************************************************************************)
EXTENDS Integers, Sequences, FiniteSets, TLC

\* ------------------------------------------------------------------ bounds

\* most segments a generated document is concatenated from (chunker runs)
MaxSegs == 3
\* most segments of a document that is driven through the translation stage
MaxDocSegs == 3
\* most recordUsage calls between two resets of the ledger
MaxRecords == 3
\* most tokens one call reports, in and out
MaxTokens == 2
\* bits of mantissa the modelled numbers keep
MantissaBits == 8
\* most callbacks registered with the ledger at a time
MaxCallbacks == 2
\* characters of the long text a provider returns
LongChars == 1500

\* ------------------------------------------------------------------ text

\* the white space \s and trim() see among the modelled characters
WS == {" ", "\n"}

\* \w of the modelled characters
WordChars == {"a", "b", "c", "e", "g", "i", "m", "r", "s", "P", "I", "T", "1", "2"}

\* the i flag's case folding on the modelled characters
toLowerCase(c) == CASE c = "I" -> "i" [] c = "P" -> "p" [] c = "T" -> "t" [] OTHER -> c

SetMin(S) == CHOOSE x \in S : \A y \in S : x <= y
SetMax(S) == CHOOSE x \in S : \A y \in S : x >= y

\* String.prototype.slice(a, b) with 0-based a (inclusive) and b (exclusive)
slice(s, a, b) == SubSeq(s, a + 1, b)

\* slice(-n) that keeps the whole string
sliceLastWhole(s, n) == s

\* String.prototype.slice(-n)
sliceLast(s, n) == IF Len(s) > n THEN SubSeq(s, Len(s) - n + 1, Len(s)) ELSE s

\* String.prototype.trim()
trim(s) ==
    LET keep == {j \in 1..Len(s) : s[j] \notin WS}
    IN  IF keep = {} THEN <<>> ELSE SubSeq(s, SetMin(keep), SetMax(keep))

\* join that keeps the last string only
joinLast(parts, sep) == IF parts = <<>> THEN <<>> ELSE parts[Len(parts)]

\* Array.prototype.join on an array of strings
RECURSIVE join(_, _)
join(parts, sep) ==
    IF parts = <<>> THEN <<>>
    ELSE IF Len(parts) = 1 THEN parts[1]
    ELSE parts[1] \o sep \o join(Tail(parts), sep)

\* the concatenation of an array of strings (join with the empty separator)
concat(parts) == join(parts, <<>>)

IsPrefix(a, b) == Len(a) <= Len(b) /\ SubSeq(b, 1, Len(a)) = a
IsStrictPrefix(a, b) == Len(a) < Len(b) /\ SubSeq(b, 1, Len(a)) = a

\* ------------------------------------------------------------------ regular expressions

Lit(c) == [t |-> "chr", cs |-> {c}, neg |-> FALSE]
Cls(S) == [t |-> "chr", cs |-> S, neg |-> FALSE]
NotCls(S) == [t |-> "chr", cs |-> S, neg |-> TRUE]
Cat(xs) == [t |-> "seq", xs |-> xs]
Alt(xs) == [t |-> "alt", xs |-> xs]
Star(x) == [t |-> "rep", x |-> x, min |-> 0]
Plus(x) == [t |-> "rep", x |-> x, min |-> 1]
Opt(x) == [t |-> "opt", x |-> x]
WordB == [t |-> "wb"]
Bol == [t |-> "bol"]
Eol == [t |-> "eol"]
Word(w) == Cat([j \in 1..Len(w) |-> Lit(w[j])])

InClass(re, c, ci) ==
    LET canon(x) == IF ci THEN toLowerCase(x) ELSE x
    IN  (canon(c) \in {canon(x) : x \in re.cs}) # re.neg

IsWordAt(s, j) == j >= 1 /\ j <= Len(s) /\ s[j] \in WordChars

RECURSIVE Ends(_, _, _, _)
RECURSIVE SeqEnds(_, _, _, _, _)
RECURSIVE SeqRest(_, _, _, _, _, _)
RECURSIVE AltEnds(_, _, _, _, _)
RECURSIVE RepEnds(_, _, _, _, _)
RECURSIVE RepRest(_, _, _, _, _, _, _)

\* the positions where a match of re that starts after the first p characters
\* of s can end, in the order backtracking tries them
Ends(re, s, p, ci) ==
    CASE re.t = "chr" ->
            IF p < Len(s) /\ InClass(re, s[p + 1], ci) THEN <<p + 1>> ELSE <<>>
      [] re.t = "seq" -> SeqEnds(re.xs, 1, s, p, ci)
      [] re.t = "alt" -> AltEnds(re.xs, 1, s, p, ci)
      [] re.t = "rep" -> RepEnds(re.x, re.min, s, p, ci)
      [] re.t = "opt" -> Ends(re.x, s, p, ci) \o <<p>>
      [] re.t = "wb" -> IF IsWordAt(s, p) # IsWordAt(s, p + 1) THEN <<p>> ELSE <<>>
      [] re.t = "bol" -> IF p = 0 THEN <<p>> ELSE <<>>
      [] re.t = "eol" -> IF p = Len(s) THEN <<p>> ELSE <<>>

SeqEnds(xs, k, s, p, ci) ==
    IF k > Len(xs) THEN <<p>>
    ELSE SeqRest(Ends(xs[k], s, p, ci), 1, xs, k + 1, s, ci)

SeqRest(es, j, xs, k, s, ci) ==
    IF j > Len(es) THEN <<>>
    ELSE SeqEnds(xs, k, s, es[j], ci) \o SeqRest(es, j + 1, xs, k, s, ci)

AltEnds(xs, k, s, p, ci) ==
    IF k > Len(xs) THEN <<>>
    ELSE Ends(xs[k], s, p, ci) \o AltEnds(xs, k + 1, s, p, ci)

\* greedy repetition: one more iteration first, stopping here last
RepEnds(x, min, s, p, ci) ==
    RepRest(Ends(x, s, p, ci), 1, x, IF min > 0 THEN min - 1 ELSE 0, s, p, ci)
        \o (IF min = 0 THEN <<p>> ELSE <<>>)

RepRest(es, j, x, min, s, p, ci) ==
    IF j > Len(es) THEN <<>>
    ELSE (IF es[j] > p THEN RepEnds(x, min, s, es[j], ci) ELSE <<>>)
            \o RepRest(es, j + 1, x, min, s, p, ci)

NoMatch == [index |-> -1, end |-> -1]

\* RegExp.prototype.exec of a global regular expression whose lastIndex is
\* from: the leftmost match at or after from, NoMatch when there is none
exec(re, s, from, ci) ==
    LET starts == {p \in from..Len(s) : Ends(re, s, p, ci) # <<>>}
    IN  IF starts = {} THEN NoMatch
        ELSE [index |-> SetMin(starts), end |-> Ends(re, s, SetMin(starts), ci)[1]]

\* RegExp.prototype.test of a regular expression without the g flag
test(re, s, ci) == exec(re, s, 0, ci) # NoMatch

\* String.prototype.split(separator) with a regular expression that has no
\* capture group: p is where the current piece starts, q where the search is
RECURSIVE splitFrom(_, _, _, _, _)
splitFrom(s, re, ci, p, q) ==
    IF q >= Len(s) THEN <<slice(s, p, Len(s))>>
    ELSE LET es == Ends(re, s, q, ci)
         IN  IF es = <<>> \/ es[1] = p THEN splitFrom(s, re, ci, p, q + 1)
             ELSE <<slice(s, p, q)>> \o splitFrom(s, re, ci, es[1], es[1])

split(s, re, ci) ==
    IF Len(s) = 0 THEN (IF Ends(re, s, 0, ci) # <<>> THEN <<>> ELSE <<s>>)
    ELSE splitFrom(s, re, ci, 0, 0)

\* ------------------------------------------------------------------ the chunker

Digits == {"1", "2"}

dquoted == Cat(<<Lit("\""), Star(NotCls({"\""})), Lit("\"")>>)
squoted == Cat(<<Lit("'"), Star(NotCls({"'"})), Lit("'")>>)

\* ![alt](url), ![alt](<url>), ![alt](url "title")
imageLink ==
    Cat(<<Lit("!"), Lit("["), Star(NotCls({"]"})), Lit("]"), Lit("("), Star(Cls(WS)),
          Alt(<<Cat(<<Lit("<"), Plus(NotCls({">"})), Lit(">")>>),
                Cat(<<Plus(NotCls({")"} \cup WS)),
                      Opt(Cat(<<Plus(Cls(WS)), Alt(<<dquoted, squoted>>)>>))>>)>>),
          Star(Cls(WS)), Lit(")")>>)

\* ![[target]]
wikiEmbed ==
    Cat(<<Lit("!"), Lit("["), Lit("["), Plus(NotCls({"]"})), Lit("]"), Lit("]")>>)

\* <img ... src="..." ...>
imgElement ==
    Cat(<<Word(<<"<", "i", "m", "g">>), WordB, Star(NotCls({">"})), WordB,
          Word(<<"s", "r", "c", "=">>), Alt(<<dquoted, squoted>>),
          Star(NotCls({">"})), Lit(">")>>)

\* /...|...|.../gi
imagePattern == Alt(<<imageLink, wikiEmbed, imgElement>>)

\* /<!-- Page \d+ -->/g
pageMarker ==
    Cat(<<Word(<<"<", "!", "-", "-", " ", "P", "a", "g", "e", " ">>), Plus(Cls(Digits)),
          Word(<<" ", "-", "-", ">">>)>>)

RECURSIVE splitImagesFrom(_, _)
splitImagesFrom(text, currentIndex) ==
    LET match == exec(imagePattern, text, currentIndex, TRUE)
    IN  IF match = NoMatch
        THEN (IF currentIndex < Len(text)
              THEN <<slice(text, currentIndex, Len(text))>> ELSE <<>>)
        ELSE (IF match.index > currentIndex
              THEN <<slice(text, currentIndex, match.index)>> ELSE <<>>)
                \o <<slice(text, match.index, match.end)>>
                \o splitImagesFrom(text, match.end)

\* splitContentByImageMarkdown without the push of the text after the last match
RECURSIVE splitImagesNoTail(_, _)
splitImagesNoTail(text, currentIndex) ==
    LET match == exec(imagePattern, text, currentIndex, TRUE)
    IN  IF match = NoMatch THEN <<>>
        ELSE (IF match.index > currentIndex
              THEN <<slice(text, currentIndex, match.index)>> ELSE <<>>)
                \o <<slice(text, match.index, match.end)>>
                \o splitImagesNoTail(text, match.end)

splitContentByImageMarkdownNoTail(text) == splitImagesNoTail(text, 0)

splitContentByImageMarkdown(text) == splitImagesFrom(text, 0)

IsBlank(s) == trim(s) = <<>>
NonBlank(s) == ~IsBlank(s)

\* splitByPages without the filter that drops the blank parts
splitByPagesNoFilter(content) ==
    LET parts == split(content, pageMarker, FALSE)
    IN  IF Len(parts) > 1 THEN parts ELSE <<content>>

splitByPages(content) ==
    LET parts == SelectSeq(split(content, pageMarker, FALSE), NonBlank)
    IN  IF Len(parts) > 1 THEN parts ELSE <<content>>

\* the units of a document: the chunks of its pages, in order
RECURSIVE chunksOf(_)
chunksOf(pages) ==
    IF pages = <<>> THEN <<>>
    ELSE splitContentByImageMarkdown(pages[1]) \o chunksOf(Tail(pages))

\* ------------------------------------------------------------------ documents

sText == <<"a">>
sSpace == <<" ">>
sNewline == <<"\n">>
sPage == <<"<", "!", "-", "-", " ", "P", "a", "g", "e", " ", "1", " ", "-", "-", ">">>
sImage == <<"!", "[", "a", "]", "(", "b", ")">>
sImageAngle == <<"!", "[", "a", "]", "(", "<", "b", " ", "c", ">", ")">>
sWiki == <<"!", "[", "[", "b", "]", "]">>
sImg == <<"<", "I", "m", "g", " ", "s", "r", "c", "=", "'", "b", "'", ">">>
sOpenImage == <<"!", "[", "a", "]", "(", "b">>
sClose == <<")">>

Segments == <<sText, sSpace, sNewline, sPage, sImage, sImageAngle, sWiki, sImg,
              sOpenImage, sClose>>

RECURSIVE DocsOf(_, _)
DocsOf(segs, n) ==
    IF n = 0 THEN {<<>>}
    ELSE LET shorter == DocsOf(segs, n - 1)
         IN  shorter \cup {d \o segs[k] : d \in shorter, k \in 1..Len(segs)}

Docs == DocsOf(Segments, MaxSegs)

\* ------------------------------------------------------------------ models, prices, the ledger

\* A model identifier is the sequence of the pieces the prefix tests tell
\* apart: startsWith looks at the first piece, includes at any piece.
startsWith(model, prefix) == Len(model) >= 1 /\ model[1] = prefix
includes(model, piece) == \E j \in 1..Len(model) : model[j] = piece

mGrok == <<"grok-", "4.1-fast">>
mGemini == <<"gemini-", "3.0-flash">>
mDistill == <<"deepseek-", "r1-", "distill", "-llama-70b">>
mUnlisted == <<"mixtral-", "8x7b">>

\* ---- numbers: the costs are IEEE doubles, every operation on them rounds.
\* A number is m * 2^e with m of at most MantissaBits bits (m = 0, or
\* 2^(MantissaBits-1) <= m < 2^MantissaBits); a double keeps 53 bits.

RECURSIVE Pow2(_)
Pow2(k) == IF k = 0 THEN 1 ELSE 2 * Pow2(k - 1)

Zero == [m |-> 0, e |-> 0]

\* n/d * 2^e rounded to the nearest number, ties to the even mantissa
RECURSIVE roundRatio(_, _, _)
roundRatio(n, d, e) ==
    IF n = 0 THEN Zero
    ELSE IF n < d * Pow2(MantissaBits - 1) THEN roundRatio(2 * n, d, e - 1)
    ELSE IF n >= d * Pow2(MantissaBits) THEN roundRatio(n, 2 * d, e + 1)
    ELSE LET q == n \div d
             r == n % d
             m == IF 2 * r > d \/ (2 * r = d /\ q % 2 = 1) THEN q + 1 ELSE q
         IN  IF m = Pow2(MantissaBits) THEN [m |-> Pow2(MantissaBits - 1), e |-> e + 1]
             ELSE [m |-> m, e |-> e]

\* the double of a decimal literal num/den, and of an integer
literal(num, den) == roundRatio(num, den, 0)
number(n) == roundRatio(n, 1, 0)

fdiv(x, y) == roundRatio(x.m, y.m, x.e - y.e)
fmul(x, y) == roundRatio(x.m * y.m, 1, x.e + y.e)

\* x + y, rounded
fadd(x, y) ==
    IF x.m = 0 THEN y
    ELSE IF y.m = 0 THEN x
    ELSE IF x.e - y.e > MantissaBits + 1 THEN x
    ELSE IF y.e - x.e > MantissaBits + 1 THEN y
    ELSE LET e0 == IF x.e < y.e THEN x.e ELSE y.e
         IN  roundRatio(x.m * Pow2(x.e - e0) + y.m * Pow2(y.e - e0), 1, e0)

\* MODEL_PRICING, in USD per million tokens
MODEL_PRICING ==
    (mGrok :> [inputPer1M |-> literal(20, 100), outputPer1M |-> literal(50, 100)])
        @@ (mGemini :> [inputPer1M |-> literal(50, 100), outputPer1M |-> literal(200, 100)])
        @@ (mDistill :> [inputPer1M |-> literal(75, 100), outputPer1M |-> literal(99, 100)])

getProviderFromModel(model) ==
    IF startsWith(model, "grok-") THEN "xAI"
    ELSE IF startsWith(model, "gpt-") THEN "OpenAI"
    ELSE IF startsWith(model, "claude-") THEN "Anthropic"
    ELSE IF startsWith(model, "gemini-") THEN "Google"
    ELSE IF startsWith(model, "deepseek-") /\ ~includes(model, "distill") THEN "DeepSeek"
    ELSE IF startsWith(model, "llama-") \/ includes(model, "distill") THEN "Groq"
    ELSE IF startsWith(model, "mistral-") THEN "Mistral"
    ELSE "Unknown"

calculateCost(model, usage) ==
    LET pricing == IF model \in DOMAIN MODEL_PRICING THEN MODEL_PRICING[model]
                   ELSE [inputPer1M |-> literal(10, 10), outputPer1M |-> literal(20, 10)]
        inputCost == fmul(fdiv(number(usage.promptTokens), number(1000000)),
                          pricing.inputPer1M)
        outputCost == fmul(fdiv(number(usage.completionTokens), number(1000000)),
                           pricing.outputPer1M)
    IN  [inputCost |-> inputCost, outputCost |-> outputCost,
         totalCost |-> fadd(inputCost, outputCost)]

createEmptyStats ==
    [byProvider |-> <<>>, byFeature |-> <<>>,
     totalInputTokens |-> 0, totalOutputTokens |-> 0, totalCost |-> Zero, totalCalls |-> 0]

emptyEntry == [input |-> 0, output |-> 0, cost |-> Zero, calls |-> 0]

\* byProvider[key] / byFeature[key] with the calls counted and nothing else
bumpEntryCallsOnly(table, key, usage, cost) ==
    LET old == IF key \in DOMAIN table THEN table[key] ELSE emptyEntry
        new == [old EXCEPT !.calls = old.calls + 1]
    IN  [x \in DOMAIN table \cup {key} |-> IF x = key THEN new ELSE table[x]]

\* byProvider[key] / byFeature[key] after one more call
bumpEntry(table, key, usage, cost) ==
    LET old == IF key \in DOMAIN table THEN table[key] ELSE emptyEntry
        new == [input |-> old.input + usage.promptTokens,
                output |-> old.output + usage.completionTokens,
                cost |-> fadd(old.cost, cost.totalCost),
                calls |-> old.calls + 1]
    IN  [x \in DOMAIN table \cup {key} |-> IF x = key THEN new ELSE table[x]]

\* sessionStats after recordUsage(params)
recordedStats(stats, params) ==
    LET cost == calculateCost(params.model, params.usage)
    IN  [byProvider |-> bumpEntry(stats.byProvider, params.provider, params.usage, cost),
         byFeature |-> bumpEntry(stats.byFeature, params.feature, params.usage, cost),
         totalInputTokens |-> stats.totalInputTokens + params.usage.promptTokens,
         totalOutputTokens |-> stats.totalOutputTokens + params.usage.completionTokens,
         totalCost |-> fadd(stats.totalCost, cost.totalCost),
         totalCalls |-> stats.totalCalls + 1]

\* ------------------------------------------------------------------ state

VARIABLES
    cstep,      \* chunker run: "input" before the chunker is applied, "chunked" after
    cdoc,       \* chunker run: the document
    cpages,     \* chunker run: splitByPages(cdoc)
    cunits,     \* chunker run: the chunks of every page, in order
    sessionStats,   \* UsageTrackerService.sessionStats
    notified,   \* the stats the onChange listeners were last called with
    usageLog,   \* history: the params of every recordUsage since the last reset
    job,        \* the command that runs: "translate", "blog", "ledger", "chunker"
    tagRegExp,  \* how the first literal of isImageMarkdownTag is taken (see there)
    settings,   \* the plugin settings the services read
    vault,      \* the files of the paper's folder: name -> <<>> or <<content>>
    tpc,        \* translate: where the call stands
    pages,      \* translateFaithful: pages
    pi,         \* translateFaithful: i, counted from 1
    pageChunks, \* translateFaithful: pageChunks of the current page
    ck,         \* translateFaithful: the position of the for-of loop in pageChunks
    translated, \* translateFaithful: translated
    chunkContext,       \* translateFaithful: chunkContext
    previousContext,    \* translateFaithful: previousContext
    translations,       \* translateFaithful: translations
    callLog,    \* history: the provider calls translate issued, in order
    tresult,    \* what translate returned: <<>> while it runs, <<result>> after
    saves,      \* history: the content of every save to the stage's artifact
    bpc,        \* generate: where the call stands
    si,         \* generate: i, counted from 1
    generatedSections,  \* generate: generatedSections
    accumulatedContext, \* generate: accumulatedContext
    bcalls,     \* history: the provider calls generate issued, in order
    bresult,    \* what generate returned: <<>> while it runs, <<result>> after
    surface,    \* the entry point in use: "sidebar", "command" or "off"
    selectedPdfPath,    \* PaperProcessorView.selectedPdfPath: <<>> for null
    processOptions,     \* PaperProcessorView.processOptions
    processingJobs,     \* PaperProcessorView.processingJobs: path -> <<>> or <<entry>>
    progressPercent,    \* PaperProcessorView.progressPercent, in tenths of a percent
    currentStep,        \* PaperProcessorView.currentStep
    currentOutputFolder,    \* PaperProcessorView.currentOutputFolder: <<>> for null
    processLogs,        \* PaperProcessorView.processLogs: the entries of each tag, in order
    notices,    \* history: the notices shown for each path, in order
    jpc,        \* processPaper: where the call for each path stands
    tasks,      \* processPaper: the tasks of each call: name -> "none", "running",
                \* "done" (resolved, the stage succeeded), "failed" (resolved, it failed)
    stageRuns,  \* history: the stages the last call for a path started, as <<path, stage>>
    folderFiles,        \* the files written under the output folders, as <<folder, name>>
    starts,     \* history: the number of processPaper and executeFullPipeline calls
    writer,     \* history: who last assigned each view field
    selectedWhile,      \* history: the calls in flight when the user last chose a PDF
    progress,   \* executeFullPipeline: the ProgressModal of the call
    opc,        \* processPDF: where the call stands
    ocalls,     \* history: what the processDocument calls of processPDF returned
    oresult,    \* what processPDF returned: <<>> while it runs, <<result>> after
    notice,     \* the Notice the command handler showed: <<>> for none
    apc,        \* a client call: "idle", "request" (requestUrl is pending), "done"
    aop,        \* a client call: the operation
    anet,       \* a client call: what the network does with the request
    aresult,    \* a client call: <<>> while it runs, then <<what the caller gets>>
    images,     \* generate: images
    ai,         \* generate: the image whose analysis is awaited, counted from 1
    icalls,     \* history: the triage and analysis calls generate issued, in order
    onChangeCallbacks,  \* UsageTrackerService.onChangeCallbacks
    invoked,    \* history: the callbacks the last notifyChange called, in order
    returned,   \* history: <<what the last recordUsage returned>>, <<>> before it
    sleeps,     \* history: the sleep calls of translateFaithful that are over, in order
    bfile,      \* getPaperContent: <<the file it found>>, <<>> before and when none
    sourceContent,  \* generate: <<content>> once the paper is read, <<>> before
    disk,       \* the paths of the vault that exist, when processPDF runs on several PDFs
    running,    \* the processPDF runs started: PDF -> where the run is and what it met
    held        \* the last stats object getSessionStats made: <<>> before, then
                \* <<[taken: its value when made, seen: its value now, shared: its
                \* byProvider and byFeature are the objects of sessionStats]>>

chunkVars == <<cstep, cdoc, cpages, cunits>>
ledgerVars == <<sessionStats, notified, usageLog>>
jobVars == <<disk, running>>
envVars == <<job, tagRegExp, settings, jobVars, held>>
trVars == <<tpc, pages, pi, pageChunks, ck, translated, chunkContext, previousContext,
            translations, callLog, tresult, sleeps>>
blogVars == <<bpc, si, generatedSections, accumulatedContext, bcalls, bresult, bfile,
              sourceContent>>
viewVars == <<surface, selectedPdfPath, processOptions, processingJobs, progressPercent,
              currentStep, currentOutputFolder, processLogs, notices, jpc, tasks, stageRuns,
              folderFiles, starts, writer, selectedWhile, progress>>
ocrVars == <<opc, ocalls, oresult>>
cmdVars == <<notice>>
adapterVars == <<apc, aop, anet, aresult>>
imageVars == <<images, ai, icalls>>
cbVars == <<onChangeCallbacks, invoked, returned>>
vars == <<chunkVars, ledgerVars, envVars, vault, saves, trVars, blogVars, viewVars, ocrVars,
          cmdVars, adapterVars, imageVars, cbVars>>

\* ------------------------------------------------------------------ the vault

FileNames == {"original.md", "translated.md", "translated_raw.md", "blog.md", "metadata.json"}

EmptyVault == [f \in FileNames |-> <<>>]

\* saveFile that creates the file when it is absent and leaves an existing file alone
saveFileCreateOnly(v, name, content) ==
    IF v[name] = <<>> THEN [v EXCEPT ![name] = <<content>>] ELSE v

\* saveFile: modify the file when it exists, create it otherwise
saveFile(v, name, content) == [v EXCEPT ![name] = <<content>>]

Exists(v, name) == v[name] # <<>>
Content(v, name) == v[name][1]

\* ------------------------------------------------------------------ the usage ledger

ChunkerOff == cstep = "off" /\ cdoc = <<>> /\ cpages = <<>> /\ cunits = <<>>

LedgerEmpty ==
    /\ sessionStats = createEmptyStats
    /\ notified = createEmptyStats
    /\ usageLog = <<>>
    /\ onChangeCallbacks = <<>> /\ invoked = <<>> /\ returned = <<>>
    /\ held = <<>>

\* recordUsage: the cost, both tables and the totals, then notifyChange
recordUsage(params) ==
    /\ sessionStats' = recordedStats(sessionStats, params)
    /\ notified' = recordedStats(sessionStats, params)
    /\ usageLog' = Append(usageLog, params)

resetSession ==
    /\ sessionStats' = createEmptyStats
    /\ notified' = createEmptyStats
    /\ usageLog' = <<>>

\* ------------------------------------------------------------------ settings, provider responses

\* checkApiKey: <<>> for null, <<message>> for an error
checkApiKey(model, st) ==
    IF startsWith(model, "grok-") /\ "grokApiKey" \notin st.keys
        THEN <<"xAI Grok API key not configured">>
    ELSE IF startsWith(model, "gpt-") /\ "openaiApiKey" \notin st.keys
        THEN <<"OpenAI API key not configured">>
    ELSE IF startsWith(model, "claude-") /\ "anthropicApiKey" \notin st.keys
        THEN <<"Anthropic API key not configured">>
    ELSE IF startsWith(model, "gemini-") /\ "geminiApiKey" \notin st.keys
        THEN <<"Gemini API key not configured">>
    ELSE IF startsWith(model, "deepseek-") /\ ~includes(model, "distill")
            /\ "deepseekApiKey" \notin st.keys
        THEN <<"DeepSeek API key not configured">>
    ELSE IF (startsWith(model, "llama-") \/ includes(model, "distill"))
            /\ "groqApiKey" \notin st.keys
        THEN <<"Groq API key not configured">>
    ELSE <<>>

SettingsChoices ==
    {[translationModel |-> mGrok, blogModel |-> mGrok, keys |-> {"grokApiKey", "mistralApiKey"}],
     [translationModel |-> mGemini, blogModel |-> mGemini, keys |-> {"geminiApiKey"}],
     [translationModel |-> mDistill, blogModel |-> mDistill, keys |-> {"geminiApiKey"}],
     [translationModel |-> mUnlisted, blogModel |-> mUnlisted, keys |-> {"grokApiKey"}]}

NoSettings == [translationModel |-> <<>>, blogModel |-> <<>>, keys |-> {}]

\* the character U+0060 (a TLA+ string cannot hold it)
tick == "U+0060"
fence == <<tick, tick, tick>>
newline == <<"\n">>
paragraphBreak == <<"\n", "\n">>

someUsage == [promptTokens |-> 3, completionTokens |-> 2, totalTokens |-> 5]

\* What a client call can return (ApiResponse<string>): success carries
\* non-empty data and the usage the provider reported, if it reported one;
\* failure carries the error, if there is one.  usage and error are <<>> when
\* undefined.
ok(data, usage) == [success |-> TRUE, data |-> data, error |-> <<>>, usage |-> usage]
failed(error) == [success |-> FALSE, data |-> <<>>, error |-> error, usage |-> <<>>]

Responses ==
    {ok(<<"T">>, <<someUsage>>),
     ok(<<"U", " ">>, <<>>),
     ok(fence \o newline \o <<"V">> \o newline \o fence, <<someUsage>>),
     ok(fence \o newline \o fence, <<>>),
     failed(<<"HTTP 500">>),
     failed(<<>>)}

startsWithFence(s) == Len(s) >= 3 /\ SubSeq(s, 1, 3) = fence

\* s.split("\n")
RECURSIVE splitLines(_)
splitLines(s) ==
    IF \E j \in 1..Len(s) : s[j] = "\n"
    THEN LET j == SetMin({x \in 1..Len(s) : s[x] = "\n"})
         IN  <<SubSeq(s, 1, j - 1)>> \o splitLines(SubSeq(s, j + 1, Len(s)))
    ELSE <<s>>

\* "Remove code blocks if LLM wrapped output"
stripCodeFence(text) ==
    IF startsWithFence(text)
    THEN LET lines == splitLines(text)
             shifted == IF startsWithFence(lines[1]) THEN Tail(lines) ELSE lines
             popped == IF Len(shifted) > 0 /\ trim(shifted[Len(shifted)]) = fence
                       THEN SubSeq(shifted, 1, Len(shifted) - 1) ELSE shifted
         IN  join(popped, newline)
    ELSE text

\* ------------------------------------------------------------------ the translation stage

\* characters of context carried from one provider call to the next
ContextChars == 200

FirstPage == <<"(First page)">>

\* "# ... _n pages_ ---": the content of the file before the first page is done
startPlaceholder(n) == <<"# translating: " \o ToString(n) \o " pages", "\n", "\n">>

\* the progress line that heads every checkpoint but the last page's
progressHeader(i, n) ==
    IF i < n THEN <<"<!-- translating: " \o ToString(i) \o "/" \o ToString(n) \o " -->">>
                  \o paragraphBreak
    ELSE <<>>

\* The first literal of isImageMarkdownTag opens a group it does not close, so
\* it is no regular expression.  tagRegExp says what the build makes of it:
\*   "rejectedAtLoad"  the script is rejected when it is compiled, and no
\*                     command of the plugin exists;
\*   "rejectedAtUse"   evaluating the literal throws SyntaxError;
\*   "groupClosed"     the literal is read with the group closed where the
\*                     literal of splitContentByImageMarkdown closes it.
TagRegExps == {"rejectedAtLoad", "rejectedAtUse", "groupClosed"}

\* isImageMarkdownTag under "groupClosed"
isImageMarkdownTag(text) ==
    LET trimmed == trim(text)
    IN  \/ test(Cat(<<Bol, imageLink, Eol>>), trimmed, FALSE)
        \/ test(Cat(<<Bol, wikiEmbed, Eol>>), trimmed, FALSE)
        \/ test(Cat(<<Bol, imgElement, Eol>>), trimmed, TRUE)

\* a page as it comes from the OCR stage: its marker, then its text
sMarked == sPage \o sText

TSegments == <<sText, sSpace, sImage, sMarked>>
TDocs == DocsOf(TSegments, MaxDocSegs)

TranslationOff ==
    /\ tpc = "off" /\ pages = <<>> /\ pi = 0 /\ pageChunks = <<>> /\ ck = 0
    /\ translated = <<>> /\ chunkContext = <<>> /\ previousContext = <<>>
    /\ translations = <<>> /\ callLog = <<>> /\ tresult = <<>> /\ sleeps = <<>>

TranslationIdle ==
    /\ tpc = "idle" /\ pages = <<>> /\ pi = 0 /\ pageChunks = <<>> /\ ck = 0
    /\ translated = <<>> /\ chunkContext = <<>> /\ previousContext = <<>>
    /\ translations = <<>> /\ callLog = <<>> /\ tresult = <<>> /\ sleeps = <<>>

\* translateCurrentFile is about to run: nothing of translate has run
TranslationAtCommand ==
    /\ tpc = "command" /\ pages = <<>> /\ pi = 0 /\ pageChunks = <<>> /\ ck = 0
    /\ translated = <<>> /\ chunkContext = <<>> /\ previousContext = <<>>
    /\ translations = <<>> /\ callLog = <<>> /\ tresult = <<>> /\ sleeps = <<>>

saved(kind, unit, content) == [kind |-> kind, unit |-> unit, content |-> content]

\* createClient: the base URL and the setting whose value is the key of the calls
createClient(model) ==
    IF startsWith(model, "grok-")
        THEN [baseUrl |-> "https://api.x.ai/v1", apiKey |-> "grokApiKey"]
    ELSE IF startsWith(model, "gpt-")
        THEN [baseUrl |-> "https://api.openai.com/v1", apiKey |-> "openaiApiKey"]
    ELSE IF startsWith(model, "claude-")
        THEN [baseUrl |-> "https://api.anthropic.com/v1", apiKey |-> "anthropicApiKey"]
    ELSE IF startsWith(model, "gemini-")
        THEN [baseUrl |-> "https://generativelanguage.googleapis.com/v1beta",
              apiKey |-> "geminiApiKey"]
    ELSE IF startsWith(model, "deepseek-") /\ ~includes(model, "distill")
        THEN [baseUrl |-> "https://api.deepseek.com/v1", apiKey |-> "deepseekApiKey"]
    ELSE IF startsWith(model, "llama-") \/ includes(model, "distill")
        THEN [baseUrl |-> "https://api.groq.com/openai/v1", apiKey |-> "groqApiKey"]
    ELSE [baseUrl |-> "https://generativelanguage.googleapis.com/v1beta",
          apiKey |-> "geminiApiKey"]

\* translateCurrentFile up to the call of translateFile, which calls translate
TranslateCurrentFile ==
    /\ UNCHANGED sleeps
    /\ job = "translate" /\ tpc = "command" /\ tagRegExp # "rejectedAtLoad"
    /\ IF "grokApiKey" \notin settings.keys
          THEN /\ notice' = <<"Please configure Grok API key in settings first">>
               /\ tpc' = "refused"
          ELSE /\ tpc' = "idle"
               /\ UNCHANGED notice
    /\ UNCHANGED <<cbVars, imageVars, adapterVars, viewVars, ocrVars, chunkVars, ledgerVars, envVars, vault, saves, blogVars,
                   pages, pi, pageChunks, ck, translated, chunkContext, previousContext,
                   translations, callLog, tresult>>

\* translate up to the first chunk of the first page: checkApiKey, vault.read,
\* and translateFaithful's splitByPages and first saveFile
Translate ==
    /\ UNCHANGED sleeps
    /\ job = "translate" \/ (job = "both" /\ bpc # "idle")
    /\ tpc = "idle" /\ tagRegExp # "rejectedAtLoad"
    /\ LET apiKeyError == checkApiKey(settings.translationModel, settings)
           ps == splitByPages(Content(vault, "original.md"))
           start == startPlaceholder(Len(ps))
       IN  IF apiKeyError # <<>>
           THEN /\ tresult' = <<[success |-> FALSE, error |-> apiKeyError]>>
                /\ tpc' = "done"
                /\ UNCHANGED <<vault, saves, pages, pi, pageChunks, ck, translated,
                               chunkContext, previousContext, translations>>
           ELSE /\ pages' = ps
                /\ translations' = <<>>
                /\ previousContext' = FirstPage
                /\ vault' = saveFile(vault, "translated_raw.md", start)
                /\ saves' = Append(saves, saved("start", 0, start))
                /\ pi' = 1
                /\ pageChunks' = splitContentByImageMarkdown(ps[1])
                /\ ck' = 1
                /\ translated' = <<>>
                /\ chunkContext' = FirstPage
                /\ tpc' = "loop"
                /\ UNCHANGED tresult
    /\ UNCHANGED <<cbVars, imageVars, adapterVars, viewVars, ocrVars, cmdVars, chunkVars, ledgerVars, envVars, blogVars, callLog>>

AtChunk == tpc = "loop" /\ ck <= Len(pageChunks)

\* the chunk loop passing over a blank chunk or an image reference without
\* adding it to the output
CopyChunkDropped ==
    /\ UNCHANGED sleeps
    /\ AtChunk
    /\ \/ IsBlank(pageChunks[ck])
       \/ tagRegExp = "groupClosed" /\ isImageMarkdownTag(pageChunks[ck])
    /\ ck' = ck + 1
    /\ UNCHANGED <<cbVars, imageVars, adapterVars, viewVars, ocrVars, cmdVars, chunkVars, ledgerVars, envVars, vault, saves, blogVars, tpc, pages, pi,
                   pageChunks, translated, chunkContext, previousContext, translations,
                   callLog, tresult>>

\* a blank chunk, or an image reference: "translated += chunk; continue"
CopyChunk ==
    /\ UNCHANGED sleeps
    /\ AtChunk
    /\ \/ IsBlank(pageChunks[ck])
       \/ tagRegExp = "groupClosed" /\ isImageMarkdownTag(pageChunks[ck])
    /\ translated' = translated \o pageChunks[ck]
    /\ ck' = ck + 1
    /\ UNCHANGED <<cbVars, imageVars, adapterVars, viewVars, ocrVars, cmdVars, chunkVars, ledgerVars, envVars, vault, saves, blogVars, tpc, pages, pi,
                   pageChunks, chunkContext, previousContext, translations, callLog,
                   tresult>>

\* isImageMarkdownTag throws; translate's catch returns the failure
TagThrows ==
    /\ UNCHANGED sleeps
    /\ AtChunk
    /\ NonBlank(pageChunks[ck])
    /\ tagRegExp = "rejectedAtUse"
    /\ tresult' = <<[success |-> FALSE,
                     error |-> <<"SyntaxError: Invalid regular expression">>]>>
    /\ tpc' = "done"
    /\ UNCHANGED <<cbVars, imageVars, adapterVars, viewVars, ocrVars, cmdVars, chunkVars, ledgerVars, envVars, vault, saves, blogVars, pages, pi,
                   pageChunks, ck, translated, chunkContext, previousContext,
                   translations, callLog>>

\* a text chunk: the prompt is built and the client is called
Request ==
    /\ UNCHANGED sleeps
    /\ AtChunk
    /\ NonBlank(pageChunks[ck])
    /\ tagRegExp = "groupClosed" /\ ~isImageMarkdownTag(pageChunks[ck])
    /\ callLog' = Append(callLog,
                         [page |-> pi, chunk |-> ck, text |-> pageChunks[ck],
                          context |-> chunkContext,
                          gemini |-> startsWith(settings.translationModel, "gemini-"),
                          result |-> <<>>, after |-> <<>>])
    /\ tpc' = "request"
    /\ UNCHANGED <<cbVars, imageVars, adapterVars, viewVars, ocrVars, cmdVars, chunkVars, ledgerVars, envVars, vault, saves, blogVars, pages, pi,
                   pageChunks, ck, translated, chunkContext, previousContext,
                   translations, tresult>>

\* the client returns r
ProviderReturn(r) ==
    /\ UNCHANGED sleeps
    /\ tpc = "request"
    /\ IF ~r.success \/ r.data = <<>>
       THEN /\ tresult' = <<[success |-> FALSE,
                             error |-> IF r.error # <<>> THEN r.error
                                       ELSE <<"Translation failed">>]>>
            /\ tpc' = "done"
            /\ callLog' = [callLog EXCEPT ![Len(callLog)].result = <<r>>]
            /\ UNCHANGED <<ledgerVars, ck, translated, chunkContext>>
       ELSE LET translatedChunk == stripCodeFence(r.data)
                appended == translated \o translatedChunk
            IN  /\ IF r.usage # <<>>
                   THEN recordUsage([provider |-> getProviderFromModel(settings.translationModel),
                                     model |-> settings.translationModel,
                                     feature |-> "translation",
                                     usage |-> r.usage[1]])
                   ELSE UNCHANGED ledgerVars
                /\ translated' = appended
                /\ chunkContext' = IF trim(translatedChunk) # <<>>
                                   THEN sliceLast(appended, ContextChars)
                                   ELSE chunkContext
                /\ ck' = ck + 1
                /\ tpc' = "loop"
                /\ callLog' = [callLog EXCEPT ![Len(callLog)].result = <<r>>,
                                              ![Len(callLog)].after = appended]
                /\ UNCHANGED tresult
    /\ UNCHANGED <<cbVars, imageVars, adapterVars, viewVars, ocrVars, cmdVars, chunkVars, envVars, vault, saves, blogVars, pages, pi, pageChunks,
                   previousContext, translations>>

\* sleep(500)
RateLimitMs == 500

\* a loop that sleeps after every page
rateLimitedAlways(i, n) == TRUE

\* "if (i < pages.length - 1)", for page i of n counted from 1
rateLimited(i, n) == i < n

\* the chunks of the page are done: translations.push and the checkpoint
PageDone ==
    /\ UNCHANGED sleeps
    /\ tpc = "loop" /\ ck > Len(pageChunks)
    /\ LET pushed == Append(translations, translated)
           checkpoint == progressHeader(pi, Len(pages)) \o join(pushed, paragraphBreak)
       IN  /\ translations' = pushed
           /\ vault' = saveFile(vault, "translated_raw.md", checkpoint)
           /\ saves' = Append(saves, saved("unit", pi, checkpoint))
    /\ previousContext' = IF Len(translated) > ContextChars
                          THEN sliceLast(translated, ContextChars) ELSE translated
    /\ tpc' = IF rateLimited(pi, Len(pages)) THEN "sleep"
              ELSE IF pi < Len(pages) THEN "next" ELSE "final"
    /\ UNCHANGED <<cbVars, imageVars, adapterVars, viewVars, ocrVars, cmdVars, chunkVars, ledgerVars, envVars, blogVars, pages, pi, pageChunks, ck,
                   translated, chunkContext, callLog, tresult>>

\* the end of a turn of the page loop: sleep(RateLimitMs), when it was called,
\* is over; the next page, or the end of the loop
Sleep ==
    /\ tpc \in {"sleep", "next"}
    /\ sleeps' = IF tpc = "sleep"
                 THEN Append(sleeps, [ms |-> RateLimitMs, page |-> pi, calls |-> Len(callLog)])
                 ELSE sleeps
    /\ IF pi < Len(pages)
          THEN /\ pi' = pi + 1
               /\ pageChunks' = splitContentByImageMarkdown(pages[pi + 1])
               /\ ck' = 1
               /\ translated' = <<>>
               /\ chunkContext' = previousContext
               /\ tpc' = "loop"
          ELSE /\ tpc' = "final"
               /\ UNCHANGED <<pi, pageChunks, ck, translated, chunkContext>>
    /\ UNCHANGED <<cbVars, imageVars, adapterVars, viewVars, ocrVars, cmdVars, chunkVars, ledgerVars, envVars, vault, saves, blogVars, pages,
                   previousContext, translations, callLog, tresult>>

\* the final save and the result
Finalize ==
    /\ UNCHANGED sleeps
    /\ tpc = "final"
    /\ LET fullTranslation == join(translations, paragraphBreak)
       IN  /\ vault' = saveFile(vault, "translated_raw.md", fullTranslation)
           /\ saves' = Append(saves, saved("final", pi, fullTranslation))
           /\ tresult' = <<[success |-> TRUE, translation |-> fullTranslation]>>
    /\ tpc' = "done"
    /\ UNCHANGED <<cbVars, imageVars, adapterVars, viewVars, ocrVars, cmdVars, chunkVars, ledgerVars, envVars, blogVars, pages, pi, pageChunks, ck,
                   translated, chunkContext, previousContext, translations, callLog>>

\* ------------------------------------------------------------------ the blog stage

\* the six section names, in the order they are generated
SECTION_ORDER == <<"problem", "related", "method", "experiment", "conclusion", "insight">>

\* characters of the earlier sections a section's prompt carries
SectionContextChars == 4000

FirstSection == <<"(first section)">>

\* `${frontmatter}\n\n# ${blogTitle}: ...\n\n`
blogHead == <<"frontmatter">> \o paragraphBreak \o <<"# title">> \o paragraphBreak

initialContent ==
    blogHead \o <<"_generating (" \o ToString(Len(SECTION_ORDER)) \o " sections)_">>
        \o paragraphBreak \o <<"---">> \o paragraphBreak

\* remainingSections.join(", ") for the sections after the i-th
RECURSIVE remaining(_)
remaining(i) ==
    IF i >= Len(SECTION_ORDER) THEN ""
    ELSE IF i = Len(SECTION_ORDER) - 1 THEN SECTION_ORDER[i + 1]
    ELSE SECTION_ORDER[i + 1] \o ", " \o remaining(i + 1)

progressNote(i) ==
    IF i < Len(SECTION_ORDER)
    THEN paragraphBreak \o <<"---">> \o paragraphBreak \o <<"_remaining: " \o remaining(i) \o "_">>
    ELSE <<>>

\* the text a section gets when its call did not succeed
failureText(sectionName, error) ==
    <<"## " \o sectionName>> \o paragraphBreak \o <<"(failed: ">>
        \o (IF error # <<>> THEN error ELSE <<"Unknown error">>) \o <<")">>

\* generateSection* with no text for a call that did not succeed
sectionTextOrNothing(isGemini, sectionName, r) ==
    IF r.success /\ r.data # <<>>
    THEN IF isGemini THEN trim(r.data) ELSE trim(stripCodeFence(r.data))
    ELSE <<>>

\* what generateSectionGemini / generateSectionText return for the response r
sectionTextOf(isGemini, sectionName, r) ==
    IF r.success /\ r.data # <<>>
    THEN IF isGemini THEN trim(r.data) ELSE trim(stripCodeFence(r.data))
    ELSE failureText(sectionName, r.error)

blogContent(sections, i) == blogHead \o join(sections, paragraphBreak) \o progressNote(i)

\* getPaperContent: <<>> for null
getPaperContent(v) ==
    IF Exists(v, "translated.md") THEN v["translated.md"]
    ELSE IF Exists(v, "translated_raw.md") THEN v["translated_raw.md"]
    ELSE IF Exists(v, "original.md") THEN v["original.md"]
    ELSE <<>>

BlogResponses ==
    {ok(<<"T">>, <<someUsage>>),
     ok(fence \o newline \o <<"V">> \o newline \o fence, <<>>),
     failed(<<"HTTP 500">>)}

\* a provider text longer than the context of a translation prompt, and with
\* two more of its kind longer than the context of a section prompt
LongText == [i \in 1..LongChars |-> IF i % 3 = 1 THEN "a" ELSE IF i % 3 = 2 THEN "b" ELSE "c"]

\* generateSection* that passes the whole of the earlier sections
previousSectionsWhole(acc) == IF acc # <<>> THEN acc ELSE FirstSection

\* generateSection*: previousSections.slice(-4000) || "(first section)"
previousSections(acc) ==
    IF sliceLast(acc, SectionContextChars) # <<>>
    THEN sliceLast(acc, SectionContextChars) ELSE FirstSection

BlogOff ==
    /\ bpc = "off" /\ si = 0 /\ generatedSections = <<>> /\ accumulatedContext = <<>>
    /\ bcalls = <<>> /\ bresult = <<>> /\ bfile = <<>> /\ sourceContent = <<>>
    /\ images = <<>> /\ ai = 0 /\ icalls = <<>>

BlogIdle ==
    /\ bpc = "idle" /\ si = 0 /\ generatedSections = <<>> /\ accumulatedContext = <<>>
    /\ bcalls = <<>> /\ bresult = <<>> /\ bfile = <<>> /\ sourceContent = <<>>
    /\ ai = 0 /\ icalls = <<>>

\* ImageAsset: tier 0 and section <<>> stand for undefined
image(name) == [name |-> name, tier |-> 0, section |-> <<>>, analysis |-> <<>>]

\* loadImagesWithData: a paper folder without images, and one with two
NoImages == <<>>
TwoImages == <<image("img-1.png"), image("img-2.png")>>

DefaultSection == SECTION_ORDER[3]
analysisFailed == <<"(analysis failed)">>

item(filename, tier, section) == [filename |-> filename, tier |-> tier, section |-> section]

\* What the triage call can return: a failure, text that JSON.parse rejects,
\* JSON that is not an array, or an array of items (a missing member is 0 or <<>>).
TriageResponses ==
    {failed(<<"HTTP 500">>),
     ok([json |-> "invalid", items |-> <<>>], <<someUsage>>),
     ok([json |-> "object", items |-> <<>>], <<>>),
     ok([json |-> "array",
         items |-> <<item("img-1.png", 1, <<SECTION_ORDER[1]>>),
                     item("img-2.png", 3, <<SECTION_ORDER[4]>>)>>], <<someUsage>>),
     ok([json |-> "array", items |-> <<item("img-2.png", 3, <<SECTION_ORDER[2]>>)>>], <<>>),
     ok([json |-> "array",
         items |-> <<item("img-1.png", 3, <<SECTION_ORDER[1]>>),
                     item("img-2.png", 3, <<SECTION_ORDER[1]>>)>>], <<>>),
     ok([json |-> "array",
         items |-> <<item("img-1.png", 0, <<>>), item("img-9.png", 1, <<SECTION_ORDER[1]>>),
                     item("img-2.png", 1, <<>>)>>], <<>>)}

AnalysisResponses == {ok(<<"A">>, <<someUsage>>), failed(<<"HTTP 500">>)}

\* triageImages: "Apply triage results"
RECURSIVE applied(_, _)
applied(imgs, items) ==
    IF items = <<>> THEN imgs
    ELSE applied([i \in DOMAIN imgs |->
                     IF imgs[i].name = Head(items).filename
                        THEN [imgs[i] EXCEPT !.tier = Head(items).tier,
                                             !.section = Head(items).section]
                        ELSE imgs[i]],
                 Tail(items))

\* triageImages that leaves an image without a tier or a section as it is
defaultedNot(imgs) == imgs

\* triageImages: "Default: assign unclassified images to Tier 2", and the
\* default section
defaulted(imgs) ==
    [i \in DOMAIN imgs |->
        [imgs[i] EXCEPT !.tier = IF @ = 0 THEN 2 ELSE @,
                        !.section = IF @ = <<>> THEN <<DefaultSection>> ELSE @]]

\* triageImages from the return of the client call to its end
triaged(imgs, r) ==
    defaulted(IF r.success /\ r.data # <<>> /\ r.data.json = "array"
                 THEN applied(imgs, r.data.items) ELSE imgs)

\* generate that analyzes every image
imagesToAnalyzeAll(imgs) == DOMAIN imgs

\* generate: imagesToAnalyze, as positions in images
imagesToAnalyze(imgs) == {i \in DOMAIN imgs : imgs[i].tier # 3}

\* generate: sectionImages, as names
sectionImages(imgs, sectionName) ==
    {imgs[i].name : i \in {j \in DOMAIN imgs :
                              imgs[j].section = <<sectionName>> /\ imgs[j].tier # 3}}

analysisCall(img) == [kind |-> "analysis", image |-> img.name, result |-> <<>>]

\* generate from the end of the image analysis to the section loop
StartSections ==
    /\ vault' = saveFile(vault, "blog.md", initialContent)
    /\ saves' = Append(saves, saved("start", 0, initialContent))
    /\ si' = 1
    /\ bpc' = "section"

\* getPaperContent: the first of the three files that exists, <<>> for none
paperFile(v) ==
    IF Exists(v, "translated.md") THEN <<"translated.md">>
    ELSE IF Exists(v, "translated_raw.md") THEN <<"translated_raw.md">>
    ELSE IF Exists(v, "original.md") THEN <<"original.md">>
    ELSE <<>>

\* generate from the paper's content to the section loop: the triage call when
\* the model is multimodal and there are images, the first saveFile otherwise
GenerateOn ==
    IF startsWith(settings.blogModel, "gemini-") /\ images # <<>>
    THEN /\ bpc' = "triage"
         /\ icalls' = <<[kind |-> "triage", image |-> "", result |-> <<>>]>>
         /\ UNCHANGED <<vault, saves, si, bresult, images, ai>>
    ELSE /\ StartSections
         /\ UNCHANGED <<bresult, imageVars>>

\* generate up to the section loop: checkApiKey, getPaperContent, the first saveFile
GenerateFrom(content) ==
    /\ LET apiKeyError == checkApiKey(settings.blogModel, settings)
       IN  IF apiKeyError # <<>>
           THEN /\ bresult' = <<[success |-> FALSE, error |-> apiKeyError]>>
                /\ bpc' = "done"
                /\ sourceContent' = <<>>
                /\ UNCHANGED <<vault, saves, si, imageVars>>
           ELSE IF content = <<>> \/ content[1] = <<>>
           THEN /\ bresult' = <<[success |-> FALSE, error |-> <<"No paper content found.">>]>>
                /\ bpc' = "done"
                /\ sourceContent' = content
                /\ UNCHANGED <<vault, saves, si, imageVars>>
           ELSE /\ sourceContent' = content
                /\ GenerateOn
    /\ UNCHANGED <<cbVars, adapterVars, viewVars, ocrVars, cmdVars, chunkVars, ledgerVars, envVars, trVars, generatedSections,
                   accumulatedContext, bcalls>>

\* generate run on its own: nothing else writes while getPaperContent reads
Generate ==
    /\ job = "blog" /\ bpc = "idle" /\ tagRegExp # "rejectedAtLoad"
    /\ bfile' = IF checkApiKey(settings.blogModel, settings) # <<>> THEN <<>>
                ELSE paperFile(vault)
    /\ GenerateFrom(getPaperContent(vault))

\* generate started by processPaper next to translate: checkApiKey, and
\* getPaperContent up to its vault.read, which is awaited
GenerateSelect ==
    /\ job = "both" /\ bpc = "idle" /\ tagRegExp # "rejectedAtLoad"
    /\ IF checkApiKey(settings.blogModel, settings) # <<>> \/ paperFile(vault) = <<>>
          THEN /\ bfile' = <<>>
               /\ GenerateFrom(<<>>)
          ELSE /\ bfile' = paperFile(vault)
               /\ bpc' = "reading"
               /\ UNCHANGED <<cbVars, imageVars, adapterVars, viewVars, ocrVars, cmdVars,
                              chunkVars, ledgerVars, envVars, vault, saves, trVars, si,
                              generatedSections, accumulatedContext, bcalls, bresult,
                              sourceContent>>

\* the vault.read of getPaperContent resolves with what the file holds now
GenerateRead ==
    /\ job = "both" /\ bpc = "reading"
    /\ UNCHANGED bfile
    /\ GenerateFrom(vault[bfile[1]])

\* the triage call returns: triageImages from there to its end, and generate
\* up to the first analysis call, or to the section loop when no image is left
TriageReturn(r) ==
    /\ UNCHANGED <<bfile, sourceContent>>
    /\ bpc = "triage"
    /\ IF r.usage # <<>>
       THEN recordUsage([provider |-> getProviderFromModel(settings.blogModel),
                         model |-> settings.blogModel,
                         feature |-> "blog",
                         usage |-> r.usage[1]])
       ELSE UNCHANGED ledgerVars
    /\ images' = triaged(images, r)
    /\ LET answered == [icalls EXCEPT ![Len(icalls)].result = <<r>>]
           todo == imagesToAnalyze(triaged(images, r))
       IN  IF todo # {}
              THEN /\ ai' = SetMin(todo)
                   /\ icalls' = Append(answered, analysisCall(images[SetMin(todo)]))
                   /\ bpc' = "analysis"
                   /\ UNCHANGED <<vault, saves, si>>
              ELSE /\ ai' = 0
                   /\ icalls' = answered
                   /\ StartSections
    /\ UNCHANGED <<cbVars, adapterVars, viewVars, ocrVars, cmdVars, chunkVars, envVars, trVars,
                   generatedSections, accumulatedContext, bcalls, bresult>>

\* the analysis call of image ai returns: analyzeImage from there to its end,
\* and generate up to the next analysis call, or to the section loop
AnalysisReturn(r) ==
    /\ UNCHANGED <<bfile, sourceContent>>
    /\ bpc = "analysis"
    /\ IF r.usage # <<>>
       THEN recordUsage([provider |-> getProviderFromModel(settings.blogModel),
                         model |-> settings.blogModel,
                         feature |-> "blog",
                         usage |-> r.usage[1]])
       ELSE UNCHANGED ledgerVars
    /\ images' = [images EXCEPT ![ai].analysis =
                     IF r.success /\ r.data # <<>> THEN r.data ELSE analysisFailed]
    /\ LET answered == [icalls EXCEPT ![Len(icalls)].result = <<r>>]
           todo == {i \in imagesToAnalyze(images) : i > ai}
       IN  IF todo # {}
              THEN /\ ai' = SetMin(todo)
                   /\ icalls' = Append(answered, analysisCall(images[SetMin(todo)]))
                   /\ UNCHANGED <<vault, saves, si, bpc>>
              ELSE /\ ai' = 0
                   /\ icalls' = answered
                   /\ StartSections
    /\ UNCHANGED <<cbVars, adapterVars, viewVars, ocrVars, cmdVars, chunkVars, envVars, trVars,
                   generatedSections, accumulatedContext, bcalls, bresult>>

\* the i-th turn of the loop up to the client call of generateSection*
SectionRequest ==
    /\ UNCHANGED <<bfile, sourceContent>>
    /\ bpc = "section"
    /\ bcalls' = Append(bcalls,
                        [section |-> SECTION_ORDER[si],
                         attached |-> IF startsWith(settings.blogModel, "gemini-")
                                      THEN sectionImages(images, SECTION_ORDER[si]) ELSE {},
                         context |-> previousSections(accumulatedContext),
                         result |-> <<>>])
    /\ bpc' = "request"
    /\ UNCHANGED <<cbVars, imageVars, adapterVars, viewVars, ocrVars, cmdVars, chunkVars, ledgerVars, envVars, vault, saves, trVars, si,
                   generatedSections, accumulatedContext, bresult>>

\* the client returns r: generateSection* returns the section text, and the
\* loop pushes it and saves the checkpoint
SectionReturn(r) ==
    /\ UNCHANGED <<bfile, sourceContent>>
    /\ bpc = "request"
    /\ IF r.usage # <<>>
       THEN recordUsage([provider |-> getProviderFromModel(settings.blogModel),
                         model |-> settings.blogModel,
                         feature |-> "blog",
                         usage |-> r.usage[1]])
       ELSE UNCHANGED ledgerVars
    /\ LET sectionText == sectionTextOf(startsWith(settings.blogModel, "gemini-"),
                                        SECTION_ORDER[si], r)
           pushed == Append(generatedSections, sectionText)
           currentBlogContent == blogContent(pushed, si)
       IN  /\ generatedSections' = pushed
           /\ accumulatedContext' = accumulatedContext \o paragraphBreak \o sectionText
           /\ vault' = saveFile(vault, "blog.md", currentBlogContent)
           /\ saves' = Append(saves, saved("unit", si, currentBlogContent))
    /\ bcalls' = [bcalls EXCEPT ![Len(bcalls)].result = <<r>>]
    /\ bpc' = IF si < Len(SECTION_ORDER) THEN "section" ELSE "final"
    /\ si' = IF si < Len(SECTION_ORDER) THEN si + 1 ELSE si
    /\ UNCHANGED <<cbVars, imageVars, adapterVars, viewVars, ocrVars, cmdVars, chunkVars, envVars, trVars, bresult>>

\* the final save and the result
BlogFinalize ==
    /\ UNCHANGED <<bfile, sourceContent>>
    /\ bpc = "final"
    /\ LET finalContent == blogHead \o join(generatedSections, paragraphBreak)
       IN  /\ vault' = saveFile(vault, "blog.md", finalContent)
           /\ saves' = Append(saves, saved("final", si, finalContent))
           /\ bresult' = <<[success |-> TRUE, content |-> finalContent]>>
    /\ bpc' = "done"
    /\ UNCHANGED <<cbVars, imageVars, adapterVars, viewVars, ocrVars, cmdVars, chunkVars, ledgerVars, envVars, trVars, si, generatedSections,
                   accumulatedContext, bcalls>>

\* ------------------------------------------------------------------ OCR

AdapterOff == apc = "off" /\ aop = "none" /\ anet = <<>> /\ aresult = <<>>
OcrOff == opc = "off" /\ ocalls = <<>> /\ oresult = <<>> /\ notice = <<>> /\ AdapterOff
OcrIdle == opc = "idle" /\ ocalls = <<>> /\ oresult = <<>> /\ notice = <<>> /\ AdapterOff

\* processDocument: the markdown of a response with one page
pageMarkdown == sPage \o paragraphBreak \o sText \o paragraphBreak

\* What processDocument can return (ApiResponse): success carries the markdown
\* and the usage the provider reported, if it reported one.
OcrResponses ==
    {ok(pageMarkdown, someUsage), ok(pageMarkdown, <<>>), failed(<<"HTTP 500">>)}

\* A PDF of the vault: the folder it is in and its basename, character by
\* character.  Its path is the folder, the basename and ".pdf".
pdf(dir, basename) == [dir |-> dir, basename |-> basename]

PdfFiles ==
    {pdf(<<"inbox">>, <<"p">>), pdf(<<"archive">>, <<"p">>), pdf(<<"inbox">>, <<"P">>),
     pdf(<<"inbox">>, <<"p", "!">>), pdf(<<"inbox">>, <<"p", " ", "-", "b">>),
     pdf(<<"inbox">>, <<"p", "-", "b">>), pdf(<<"inbox">>, <<"b">>)}

\* replace(/x+/g, "-"): every run of characters of the class becomes one "-"
RECURSIVE replaceRuns(_, _)
replaceRuns(s, class) ==
    IF s = <<>> THEN <<>>
    ELSE IF s[1] \notin class THEN <<s[1]>> \o replaceRuns(Tail(s), class)
    ELSE IF Len(s) > 1 /\ s[2] \in class THEN replaceRuns(Tail(s), class)
    ELSE <<"-">> \o replaceRuns(Tail(s), class)

\* substring(0, 60)
SlugChars == 60

\* [a-z0-9\s-] on the modelled characters
SlugClass == {"a", "b", "c", "e", "g", "i", "m", "p", "r", "s", "t", "1", "2", " ", "-"}

\* generateSlug: lower case, only [a-z0-9\s-] and Hangul kept, runs of white
\* space and runs of "-" made one "-", the first SlugChars characters
generateSlug(title) ==
    LET lower == [i \in DOMAIN title |-> toLowerCase(title[i])]
        kept == SelectSeq(lower, LAMBDA c : c \in SlugClass)
        dashed == replaceRuns(replaceRuns(kept, {" "}), {"-"})
    IN  slice(dashed, 0, IF Len(dashed) < SlugChars THEN Len(dashed) ELSE SlugChars)

\* the PDF processPDF is called with: the one the import selected, when
\* there was an import
pdfFile == IF selectedPdfPath = <<>> THEN pdf(<<"inbox">>, <<"p">>) ELSE selectedPdfPath[1]

\* the metadata processPDF saves (the response has no images; the date is left out)
ocrMetadata(file) ==
    [title |-> file.basename, slug |-> generateSlug(file.basename),
     source_file |-> file.dir \o <<"/">> \o file.basename \o <<".pdf">>, images_count |-> 0]

\* substring(0, 50) of the importer's generateSlug
ImportSlugChars == 50

\* generateSlug of the view: lower case, only [a-z0-9\s-] kept, runs of white
\* space made one "-", the first ImportSlugChars characters
importSlug(title) ==
    LET lower == [i \in DOMAIN title |-> toLowerCase(title[i])]
        kept == SelectSeq(lower, LAMBDA c : c \in SlugClass)
        dashed == replaceRuns(kept, {" "})
    IN  slice(dashed, 0, IF Len(dashed) < ImportSlugChars THEN Len(dashed)
                         ELSE ImportSlugChars)

\* the papers a search returned
Papers ==
    {[title |-> t, authors |-> <<"A. Author">>, arxivId |-> "2401.00001", categories |-> c] :
        t \in {<<"P">>, <<"P", " ", "b">>, <<"b", "!">>, <<"a">>, <<"a", "-", "b">>, <<"c">>},
        c \in {<<"cs.CL">>, <<"cs.CL", "cs.AI">>}}

\* the metadata importPaper saves (abstract, dates and URLs are left out)
importedMetadata(paper) ==
    [title |-> paper.title, title_ko |-> <<>>, authors |-> paper.authors,
     arxiv_id |-> paper.arxivId, categories |-> paper.categories,
     slug |-> importSlug(paper.title)]

\* getMetadata: the parsed metadata.json, <<>> for null
getMetadata(v) == IF Exists(v, "metadata.json") THEN <<Content(v, "metadata.json")>> ELSE <<>>

\* importPaper: the download, then the PDF and metadata.json in the folder
\* of the paper's slug, and the PDF selected for processing
ImportPaper(paper, downloaded) ==
    /\ job = "import" /\ opc = "import"
    /\ IF downloaded
          THEN /\ vault' = saveFile(vault, "metadata.json", importedMetadata(paper))
               /\ selectedPdfPath' =
                     <<pdf(<<"papers", "/">> \o importSlug(paper.title),
                           importSlug(paper.title))>>
               /\ notice' = <<"Imported">>
               /\ opc' = "idle"
          ELSE /\ notice' = <<"Failed to download">>
               /\ opc' = "done"
               /\ UNCHANGED <<vault, selectedPdfPath>>
    /\ UNCHANGED <<cbVars, imageVars, adapterVars, chunkVars, ledgerVars, envVars, saves,
                   trVars, blogVars, ocalls, oresult, surface, processOptions,
                   processingJobs, progressPercent, currentStep, currentOutputFolder,
                   processLogs, notices, jpc, tasks, stageRuns, folderFiles, starts, writer,
                   selectedWhile, progress>>

\* processPDF up to the call of processDocument
ProcessPDF ==
    /\ job \in {"ocr", "import"} /\ opc = "idle" /\ tagRegExp # "rejectedAtLoad"
    /\ IF "mistralApiKey" \notin settings.keys
          THEN /\ oresult' = <<[success |-> FALSE,
                                error |-> <<"Mistral API key not configured.">>]>>
               /\ opc' = "done"
          ELSE /\ opc' = "request"
               /\ UNCHANGED oresult
    /\ UNCHANGED <<cbVars, imageVars, adapterVars, viewVars, cmdVars, chunkVars, ledgerVars, envVars, vault, saves, trVars, blogVars,
                   ocalls>>

\* processDocument returns: processPDF from there to its end.  The markdown
\* holds no image link, so that the rewriting of image paths leaves it as it is.
ProcessDocumentReturn(r) ==
    /\ opc = "request"
    /\ ocalls' = Append(ocalls, r)
    /\ opc' = "done"
    /\ IF ~r.success \/ r.data = <<>>
          THEN /\ oresult' = <<[success |-> FALSE,
                                error |-> IF r.error # <<>> THEN r.error
                                          ELSE <<"OCR processing failed">>]>>
               /\ UNCHANGED <<vault, saves>>
          ELSE /\ vault' = saveFile(saveFile(vault, "original.md", r.data),
                                    "metadata.json", ocrMetadata(pdfFile))
               /\ saves' = Append(saves, saved("ocr", 0, r.data))
               /\ oresult' = <<[success |-> TRUE, markdown |-> r.data]>>
    /\ UNCHANGED <<cbVars, imageVars, adapterVars, viewVars, cmdVars, chunkVars, ledgerVars, envVars, trVars, blogVars>>

\* ------------------------------------------------------------------ OCR of several PDFs

\* `${this.settings.outputFolder}/${slug}`
outputFolderPath(file) == <<"papers", "/">> \o generateSlug(file.basename)

markdownPath(file) == outputFolderPath(file) \o <<"/", "original.md">>
metadataPath(file) == outputFolderPath(file) \o <<"/", "metadata.json">>

\* processPDF runs that the view lets be in flight together
MaxJobs == 2

JobsOff == disk = {} /\ running = <<>>

NoRuns == [file \in {} |-> <<>>]

\* saveFile up to its await: "modify" when the path exists, "create" when not
saveStep(d, path) == IF path \in d THEN "modify" ELSE "create"

\* processPaper registers the job and calls processPDF, which awaits
\* readBinary and processDocument
StartJob(file) ==
    /\ job = "jobs" /\ file \notin DOMAIN running
    /\ Cardinality(DOMAIN running) < MaxJobs
    /\ running' = [f \in DOMAIN running \cup {file} |->
                      IF f = file THEN [pc |-> "ocr", step |-> "", error |-> <<>>]
                      ELSE running[f]]
    /\ UNCHANGED <<cbVars, imageVars, adapterVars, viewVars, ocrVars, cmdVars, chunkVars,
                   ledgerVars, held, job, tagRegExp,
                   settings, disk, vault, saves, trVars,
                   blogVars>>

\* processDocument has returned the markdown: ensureFolder up to its await,
\* or, the folder being there, up to the await of saveFile
EnsureFolder(file) ==
    /\ job = "jobs" /\ file \in DOMAIN running /\ running[file].pc = "ocr"
    /\ running' = [running EXCEPT ![file] =
                      IF outputFolderPath(file) \in disk
                      THEN [pc |-> "markdown", step |-> saveStep(disk, markdownPath(file)),
                            error |-> <<>>]
                      ELSE [pc |-> "folder", step |-> "create", error |-> <<>>]]
    /\ UNCHANGED <<cbVars, imageVars, adapterVars, viewVars, ocrVars, cmdVars, chunkVars,
                   ledgerVars, held, job, tagRegExp,
                   settings, disk, vault, saves, trVars,
                   blogVars>>

\* a create of the vault on the path the run found absent; it throws when the
\* path is there by now, and processPDF's catch returns the failure
VaultCreate(file, path, pc, nextPath) ==
    IF path \in disk
    THEN /\ running' = [running EXCEPT ![file] =
                           [pc |-> "failed", step |-> running[file].pc,
                            error |-> <<"already exists">>]]
         /\ UNCHANGED disk
    ELSE /\ disk' = disk \cup {path}
         /\ running' = [running EXCEPT ![file] =
                           [pc |-> pc, step |-> IF nextPath = <<>> THEN ""
                                                ELSE saveStep(disk \cup {path}, nextPath),
                            error |-> <<>>]]

\* createFolder is over: saveFile of original.md up to its await
CreateFolder(file) ==
    /\ job = "jobs" /\ file \in DOMAIN running /\ running[file].pc = "folder"
    /\ VaultCreate(file, outputFolderPath(file), "markdown", markdownPath(file))
    /\ UNCHANGED <<cbVars, imageVars, adapterVars, viewVars, ocrVars, cmdVars, chunkVars,
                   ledgerVars, held, job, tagRegExp,
                   settings, vault, saves, trVars, blogVars>>

\* the write of original.md is over: saveFile of metadata.json up to its await
\* (the response has no images)
SaveMarkdown(file) ==
    /\ job = "jobs" /\ file \in DOMAIN running /\ running[file].pc = "markdown"
    /\ IF running[file].step = "create"
          THEN VaultCreate(file, markdownPath(file), "metadata", metadataPath(file))
          ELSE /\ running' = [running EXCEPT ![file] =
                                 [pc |-> "metadata",
                                  step |-> saveStep(disk, metadataPath(file)),
                                  error |-> <<>>]]
               /\ UNCHANGED disk
    /\ UNCHANGED <<cbVars, imageVars, adapterVars, viewVars, ocrVars, cmdVars, chunkVars,
                   ledgerVars, held, job, tagRegExp,
                   settings, vault, saves, trVars, blogVars>>

\* the write of metadata.json is over: processPDF returns success
SaveMetadata(file) ==
    /\ job = "jobs" /\ file \in DOMAIN running /\ running[file].pc = "metadata"
    /\ IF running[file].step = "create"
          THEN VaultCreate(file, metadataPath(file), "done", <<>>)
          ELSE /\ running' = [running EXCEPT ![file] =
                                 [pc |-> "done", step |-> "", error |-> <<>>]]
               /\ UNCHANGED disk
    /\ UNCHANGED <<cbVars, imageVars, adapterVars, viewVars, ocrVars, cmdVars, chunkVars,
                   ledgerVars, held, job, tagRegExp,
                   settings, vault, saves, trVars, blogVars>>

\* ------------------------------------------------------------------ the provider clients

\* A JSON body as the clients read it.  json: "invalid" (response.json throws),
\* "null", or "object"; text: choices[0].message.content, or
\* candidates[0].content.parts[0].text; usage: usage, or usageMetadata; pages:
\* pages, each page with its markdown.  <<>> is an absent member, <<x>> the
\* member x.
body(json, text, usage, bodyPages) ==
    [json |-> json, text |-> text, usage |-> usage, pages |-> bodyPages]

Bodies ==
    {body("invalid", <<>>, <<>>, <<>>),
     body("null", <<>>, <<>>, <<>>),
     body("object", <<>>, <<>>, <<>>),
     body("object", <<<<>>>>, <<>>, <<>>),
     body("object", <<sText>>, <<>>, <<>>),
     body("object", <<sText>>, <<someUsage>>, <<>>),
     body("object", <<>>, <<>>, <<<<>>>>),
     body("object", <<>>, <<someUsage>>, <<<<[index |-> 0, markdown |-> <<>>]>>>>),
     body("object", <<>>, <<>>, <<<<[index |-> 0, markdown |-> <<sText>>]>>>>),
     body("object", <<>>, <<someUsage>>, <<<<[index |-> 0, markdown |-> <<sText>>]>>>>)}

Statuses == {200, 304, 500}

\* what the network does with a request: no connection, or a response
Outcomes ==
    {[offline |-> TRUE, status |-> 0, body |-> body("invalid", <<>>, <<>>, <<>>)]}
        \cup {[offline |-> FALSE, status |-> st, body |-> b] : st \in Statuses, b \in Bodies}

rejected(message) == [thrown |-> TRUE, message |-> message]
response(net) == [thrown |-> FALSE, status |-> net.status, body |-> net.body]

\* requestUrl: rejects without a connection, and for a status of 400 and more
\* unless the request says throw: false
requestUrl(net, throw) ==
    IF net.offline THEN rejected(<<"net::ERR_INTERNET_DISCONNECTED">>)
    ELSE IF throw /\ net.status >= 400 THEN rejected(<<"Request failed, status">>)
    ELSE response(net)

Is2xx(status) == status >= 200 /\ status < 300

\* ApiClient.post; data is <<>> for a null body, <<body>> for an object
post(net) ==
    LET res == requestUrl(net, FALSE) IN
    IF res.thrown THEN failed(res.message)
    ELSE IF Is2xx(res.status)
        THEN IF res.body.json = "invalid" THEN failed(<<"Unexpected token">>)
             ELSE ok(IF res.body.json = "null" THEN <<>> ELSE <<res.body>>, <<>>)
    ELSE failed(<<"HTTP", res.status>>)

\* OpenAICompatibleClient.chatCompletion
chatCompletion(net) ==
    LET res == post(net) IN
    IF res.success /\ res.data # <<>>
        THEN LET content == res.data[1].text IN
             IF content # <<>> /\ content[1] # <<>>
                 THEN ok(content[1], res.data[1].usage)
                 ELSE failed(<<"No content in response">>)
    ELSE failed(res.error)

\* GeminiClient.generateContent and generateContentWithParts, which differ in
\* the request they build and in the text of the message for a status that is
\* not 2xx
generateContentOf(net, statusText) ==
    LET res == requestUrl(net, TRUE) IN
    IF res.thrown THEN failed(res.message)
    ELSE IF Is2xx(res.status)
        THEN IF res.body.json = "invalid" THEN failed(<<"Unexpected token">>)
             ELSE IF res.body.json = "object" /\ res.body.text # <<>>
                        /\ res.body.text[1] # <<>>
                 THEN ok(res.body.text[1], res.body.usage)
             ELSE failed(<<"No text in response">>)
    ELSE failed(<<"HTTP", res.status>> \o statusText)

generateContent(net) == generateContentOf(net, <<>>)
generateContentWithParts(net) == generateContentOf(net, <<"response.text">>)

\* the markdown processDocument builds from the pages that have some
RECURSIVE markdownOf(_)
markdownOf(ps) ==
    IF ps = <<>> THEN <<>>
    ELSE (IF Head(ps).markdown # <<>> /\ Head(ps).markdown[1] # <<>>
             THEN sPage \o paragraphBreak \o Head(ps).markdown[1] \o paragraphBreak
             ELSE <<>>)
         \o markdownOf(Tail(ps))

\* MistralOCRClient.processDocument
processDocument(net) ==
    LET res == requestUrl(net, TRUE) IN
    IF res.thrown THEN failed(res.message)
    ELSE IF Is2xx(res.status)
        THEN IF res.body.json = "invalid" THEN failed(<<"Unexpected token">>)
             ELSE IF res.body.json = "null"
                 THEN failed(<<"Cannot read properties of null">>)
             ELSE ok([markdown |-> IF res.body.pages = <<>> THEN <<>>
                                   ELSE markdownOf(res.body.pages[1]),
                      images |-> <<>>],
                     res.body.usage)
    ELSE failed(<<"HTTP", res.status, "response.text">>)

Operations == {"chatCompletion", "generateContent", "generateContentWithParts",
               "processDocument"}

resultOf(op, net) ==
    CASE op = "chatCompletion" -> chatCompletion(net)
      [] op = "generateContent" -> generateContent(net)
      [] op = "generateContentWithParts" -> generateContentWithParts(net)
      [] op = "processDocument" -> processDocument(net)

\* the operation up to its await of requestUrl
Call ==
    /\ job = "client" /\ apc = "idle"
    /\ apc' = "request"
    /\ UNCHANGED <<chunkVars, ledgerVars, envVars, vault, saves, trVars, blogVars, viewVars,
                   ocrVars, cmdVars, imageVars, cbVars, aop, anet, aresult>>

\* requestUrl settles: the operation from there to its end
Settle ==
    /\ apc = "request"
    /\ apc' = "done"
    /\ aresult' = <<resultOf(aop, anet[1])>>
    /\ UNCHANGED <<chunkVars, ledgerVars, envVars, vault, saves, trVars, blogVars, viewVars,
                   ocrVars, cmdVars, imageVars, cbVars, aop, anet>>

\* ------------------------------------------------------------------ the chunker alone

Chunk ==
    /\ job = "chunker" /\ cstep = "input"
    /\ cstep' = "chunked"
    /\ cpages' = splitByPages(cdoc)
    /\ cunits' = chunksOf(splitByPages(cdoc))
    /\ UNCHANGED <<cbVars, imageVars, adapterVars, viewVars, ocrVars, cmdVars, cdoc, ledgerVars, envVars, vault, saves, trVars, blogVars>>

\* ------------------------------------------------------------------ the ledger alone

\* the usage a provider reports: t tokens in, t % 2 out
Usages == {[promptTokens |-> t, completionTokens |-> t % 2, totalTokens |-> t + (t % 2)] :
              t \in 1..MaxTokens}

\* the callers pass the provider of the model
LedgerParams ==
    {[provider |-> getProviderFromModel(c[1]), model |-> c[1], feature |-> c[2], usage |-> u] :
        c \in {<<mGrok, "translation">>, <<mGemini, "blog">>, <<mUnlisted, "translation">>},
        u \in Usages}

\* the listeners: one that returns, and one that throws whenever it is called
Callbacks == {"modal", "faulty"}
Throws(callback) == callback = "faulty"

\* the callbacks before the first that throws, and that one
RECURSIVE upToThrow(_)
upToThrow(callbacks) ==
    IF callbacks = <<>> THEN <<>>
    ELSE IF Throws(Head(callbacks)) THEN <<Head(callbacks)>>
    ELSE <<Head(callbacks)>> \o upToThrow(Tail(callbacks))

\* notifyChange without its try/catch
notifyChangeUncaught(callbacks) == upToThrow(callbacks)

\* what a callback passes to offChange when it is called: "once" itself,
\* "closer" the modal's callback, the others nothing
Unregisters(callback) ==
    IF callback = "once" THEN <<"once">>
    ELSE IF callback = "closer" THEN <<"modal">>
    ELSE <<>>

\* offChange: indexOf and splice remove the first occurrence, if there is one
offChange(callbacks, callback) ==
    IF \E i \in DOMAIN callbacks : callbacks[i] = callback
    THEN LET i == SetMin({j \in DOMAIN callbacks : callbacks[j] = callback})
         IN  SubSeq(callbacks, 1, i - 1) \o SubSeq(callbacks, i + 1, Len(callbacks))
    ELSE callbacks

\* the for-of loop of notifyChange from position i of the array, which the
\* callbacks change through offChange while the loop runs: the array after
\* the loop and the callbacks called, in order
RECURSIVE notifyFrom(_, _, _)
notifyFrom(callbacks, i, called) ==
    IF i > Len(callbacks) THEN [callbacks |-> callbacks, invoked |-> called]
    ELSE LET callback == callbacks[i]
             after == IF Unregisters(callback) = <<>> THEN callbacks
                      ELSE offChange(callbacks, Unregisters(callback)[1])
         IN  notifyFrom(after, i + 1, Append(called, callback))

\* notifyChange: the callbacks it calls, in order; what one throws is caught
\* and logged inside the loop
notifyChange(callbacks) == notifyFrom(callbacks, 1, <<>>).invoked

\* onChangeCallbacks after notifyChange
registered(callbacks) == notifyFrom(callbacks, 1, <<>>).callbacks

OnChange(callback) ==
    /\ job = "ledger"
    /\ Len(onChangeCallbacks) < MaxCallbacks
    /\ onChangeCallbacks' = Append(onChangeCallbacks, callback)
    /\ UNCHANGED <<invoked, returned>>
    /\ UNCHANGED <<imageVars, adapterVars, viewVars, ocrVars, cmdVars, chunkVars, ledgerVars,
                   envVars, vault, saves, trVars, blogVars>>

\* offChange: indexOf and splice remove the first occurrence
OffChange(callback) ==
    /\ job = "ledger"
    /\ \E i \in DOMAIN onChangeCallbacks : onChangeCallbacks[i] = callback
    /\ onChangeCallbacks' = offChange(onChangeCallbacks, callback)
    /\ UNCHANGED <<invoked, returned>>
    /\ UNCHANGED <<imageVars, adapterVars, viewVars, ocrVars, cmdVars, chunkVars, ledgerVars,
                   envVars, vault, saves, trVars, blogVars>>

\* getSessionStats: "{ ...this.sessionStats }", a new object with the totals
\* copied and with the byProvider and byFeature objects of sessionStats
getSessionStats(stats) == [taken |-> stats, seen |-> stats, shared |-> TRUE]

\* what a stats object made earlier holds once sessionStats is stats: the
\* tables it shares with sessionStats are the tables of stats
through(h, stats) ==
    IF h.shared
    THEN [h EXCEPT !.seen.byProvider = stats.byProvider, !.seen.byFeature = stats.byFeature]
    ELSE h

\* the callback "keeper" keeps the stats object it is called with
Keeps(callbacks) == \E i \in DOMAIN callbacks : callbacks[i] = "keeper"

\* the stats object kept after notifyChange: the one the callbacks were given,
\* when one of them keeps it, the one made earlier otherwise
passed(callbacks, before, stats) ==
    IF Keeps(callbacks) THEN <<getSessionStats(stats)>>
    ELSE IF before = <<>> THEN <<>>
    ELSE <<through(before[1], stats)>>

RecordUsage(params) ==
    /\ job = "ledger"
    /\ Len(usageLog) < MaxRecords
    /\ recordUsage(params)
    /\ invoked' = notifyChange(onChangeCallbacks)
    /\ returned' = <<calculateCost(params.model, params.usage)>>
    /\ held' = passed(notifyChange(onChangeCallbacks), held,
                      recordedStats(sessionStats, params))
    /\ onChangeCallbacks' = registered(onChangeCallbacks)
    /\ UNCHANGED <<imageVars, adapterVars, viewVars, ocrVars, cmdVars, chunkVars, job,
                   tagRegExp, settings, jobVars, vault, saves, trVars, blogVars>>

\* resetSession: sessionStats is a new object with new tables
ResetSession ==
    /\ job = "ledger"
    /\ usageLog # <<>>
    /\ resetSession
    /\ invoked' = notifyChange(onChangeCallbacks)
    /\ held' = passed(notifyChange(onChangeCallbacks),
                      IF held = <<>> THEN <<>> ELSE <<[held[1] EXCEPT !.shared = FALSE]>>,
                      createEmptyStats)
    /\ onChangeCallbacks' = registered(onChangeCallbacks)
    /\ UNCHANGED returned
    /\ UNCHANGED <<imageVars, adapterVars, viewVars, ocrVars, cmdVars, chunkVars, job,
                   tagRegExp, settings, jobVars, vault, saves, trVars, blogVars>>

\* a caller of getSessionStats keeps what it returns
GetSessionStats ==
    /\ job = "ledger"
    /\ held' = <<getSessionStats(sessionStats)>>
    /\ UNCHANGED <<cbVars, imageVars, adapterVars, viewVars, ocrVars, cmdVars, chunkVars,
                   ledgerVars, job, tagRegExp, settings, jobVars, vault, saves, trVars,
                   blogVars>>

\* the fields a holder of a stats object writes to
SnapshotFields == {"totalCalls", "byProvider"}

\* a table with the calls of every entry set to 0
cleared(table) == [k \in DOMAIN table |-> [table[k] EXCEPT !.calls = 0]]

\* the holder of the stats object writes to it: totalCalls = 0, or calls = 0 in
\* every entry of byProvider; the entries are those of sessionStats while the
\* table is shared
MutateSnapshot(field) ==
    /\ job = "ledger" /\ held # <<>>
    /\ IF field = "totalCalls"
          THEN /\ held[1].seen.totalCalls # 0
               /\ held' = <<[held[1] EXCEPT !.seen.totalCalls = 0]>>
               /\ UNCHANGED sessionStats
          ELSE /\ held[1].seen.byProvider # cleared(held[1].seen.byProvider)
               /\ held' = <<[held[1] EXCEPT !.seen.byProvider = cleared(@)]>>
               /\ sessionStats' = IF held[1].shared
                                  THEN [sessionStats EXCEPT !.byProvider = cleared(@)]
                                  ELSE sessionStats
    /\ UNCHANGED <<cbVars, imageVars, adapterVars, viewVars, ocrVars, cmdVars, chunkVars,
                   notified, usageLog, job, tagRegExp, settings, jobVars, vault, saves,
                   trVars, blogVars>>

\* ------------------------------------------------------------------ the sidebar view, the pipeline command

\* the processPaper and executeFullPipeline calls of a run
MaxStarts == 2

PDFs == {"a.pdf", "b.pdf"}

\* OCRService.processPDF: outputFolderPath, one folder per PDF
outputFolderOf(path) == IF path = "a.pdf" THEN "papers/a" ELSE "papers/b"

\* 5 + p.percent * 0.3, in tenths of a percent
ocrPercent(percent) == 50 + 3 * percent

ViewSettings ==
    {[translationModel |-> <<>>, blogModel |-> <<>>, keys |-> {}, enableBlog |-> e] :
        e \in BOOLEAN}

\* what OCRService.processPDF resolves to; wrote: original.md was saved before
\* the call ended
OcrResults ==
    {[success |-> TRUE, outputFolder |-> TRUE, error |-> <<>>, wrote |-> TRUE],
     [success |-> FALSE, outputFolder |-> FALSE, error |-> <<"HTTP 500">>, wrote |-> FALSE]}

\* what TranslatorService.translate and BlogGeneratorService.generate resolve
\* to; wrote: the stage's artifact was saved at least once before the call ended
StageResults ==
    {[success |-> TRUE, error |-> <<>>, wrote |-> TRUE],
     [success |-> FALSE, error |-> <<"HTTP 500">>, wrote |-> TRUE]}

artifactOf(stage) == IF stage = "translation" THEN "translated_raw.md" ELSE "blog.md"

TaskNames == {"translation", "blog"}
NoTasks == [n \in TaskNames |-> "none"]

InFlight == {p \in PDFs : processingJobs[p] # <<>>}

\* every entry carries the tag of its call: the entries are kept by tag
Tags == PDFs \cup {"separator"}
NoLogs == [t \in Tags |-> <<>>]
logged(logs, tag, entries) == [logs EXCEPT ![tag] = @ \o entries]
jobLog(msg, detail) == <<msg>> \o detail

wrote(files, flag, folder, names) ==
    IF flag THEN files \cup {<<folder, n>> : n \in names} ELSE files

assigned(w, fields, who) == [f \in DOMAIN w |-> IF f \in fields THEN who ELSE w[f]]

ViewIdle ==
    /\ selectedPdfPath = <<>>
    /\ processingJobs = [p \in PDFs |-> <<>>]
    /\ progressPercent = 0 /\ currentStep = "" /\ currentOutputFolder = <<>>
    /\ processLogs = NoLogs /\ notices = [p \in PDFs |-> <<>>]
    /\ jpc = [p \in PDFs |-> "idle"] /\ tasks = [p \in PDFs |-> NoTasks]
    /\ stageRuns = {} /\ folderFiles = {} /\ starts = 0
    /\ writer = [f \in {"progressPercent", "currentStep", "currentOutputFolder",
                        "selectedPdfPath"} |-> "nobody"]
    /\ selectedWhile = {}
    /\ progress = [p \in PDFs |-> <<>>]

ViewOff ==
    /\ surface = "off"
    /\ processOptions = [ocr |-> TRUE, translate |-> TRUE, blog |-> FALSE]
    /\ ViewIdle

\* the services and the rest of the plugin are not part of these runs
coreVars == <<chunkVars, ledgerVars, envVars, vault, saves, trVars, blogVars, ocrVars,
              cmdVars, adapterVars, imageVars, cbVars>>

\* the PDF picker's onSelect
SelectPdf(path) ==
    /\ surface = "sidebar"
    /\ selectedPdfPath # <<path>>
    /\ selectedPdfPath' = <<path>>
    /\ writer' = assigned(writer, {"selectedPdfPath"}, "user")
    /\ selectedWhile' = InFlight
    /\ UNCHANGED <<coreVars, surface, processOptions, processingJobs, progressPercent,
                   currentStep, currentOutputFolder, processLogs, notices, jpc, tasks,
                   stageRuns, folderFiles, starts, progress>>

\* the change handler of an option's checkbox (the OCR box is disabled)
SetOption(key) ==
    /\ surface = "sidebar"
    /\ processOptions' = [processOptions EXCEPT ![key] = ~processOptions[key]]
    /\ UNCHANGED <<coreVars, surface, selectedPdfPath, processingJobs, progressPercent,
                   currentStep, currentOutputFolder, processLogs, notices, jpc, tasks,
                   stageRuns, folderFiles, starts, writer, selectedWhile, progress>>

\* the click handler of "Clear logs", shown when no job is active
ClearLogs ==
    /\ surface = "sidebar"
    /\ InFlight = {} /\ processLogs # NoLogs
    /\ processLogs' = NoLogs
    /\ progressPercent' = 0
    /\ currentStep' = ""
    /\ writer' = assigned(writer, {"progressPercent", "currentStep"}, "user")
    /\ UNCHANGED <<coreVars, surface, selectedPdfPath, processOptions, processingJobs,
                   currentOutputFolder, notices, jpc, tasks, stageRuns, folderFiles,
                   starts, selectedWhile, progress>>

\* the end of processPaper: the completion block when no error was thrown,
\* the catch block otherwise, then the finally block
finished(path, thrown, percent, logs, also) ==
    /\ processingJobs' = [processingJobs EXCEPT ![path] = <<>>]
    /\ jpc' = [jpc EXCEPT ![path] = "idle"]
    /\ currentStep' = ""
    /\ IF thrown = <<>>
          THEN /\ progressPercent' = 1000
               /\ processLogs' = logged(logs, path,
                     <<jobLog("All processing complete!", <<>>),
                       jobLog("Output", <<outputFolderOf(path)>>)>>)
               /\ notices' = [notices EXCEPT ![path] = Append(@, <<"Processing complete">>)]
               /\ selectedPdfPath' = <<>>
               /\ writer' = assigned(writer, {"progressPercent", "currentStep",
                                              "selectedPdfPath"} \cup also, path)
               /\ selectedWhile' = {}
          ELSE /\ progressPercent' = percent
               /\ processLogs' = logged(logs, path, <<jobLog("Error", thrown)>>)
               /\ notices' = [notices EXCEPT ![path] = Append(@, <<"Error">> \o thrown)]
               /\ writer' = assigned(writer, {"progressPercent", "currentStep"} \cup also,
                                      path)
               /\ selectedWhile' = selectedWhile \ {path}
               /\ UNCHANGED selectedPdfPath

\* processPaper up to the first suspension of processPDF; the button that
\* calls it is disabled while the selected file is in processingJobs
ProcessPaper ==
    /\ surface = "sidebar"
    /\ starts < MaxStarts
    /\ selectedPdfPath # <<>>
    /\ LET path == selectedPdfPath[1] IN
         /\ processingJobs[path] = <<>>
         /\ processingJobs' = [processingJobs EXCEPT ![path] =
              <<[logs |-> <<>>, progressPercent |-> 0, currentStep |-> "",
                 outputFolder |-> <<>>]>>]
         /\ progressPercent' = ocrPercent(10)
         /\ currentStep' = "Step 1/3: Reading PDF file"
         /\ currentOutputFolder' = <<>>
         /\ processLogs' = logged(
              logged(processLogs, "separator",
                     IF processLogs # NoLogs THEN <<jobLog("separator", <<>>)>> ELSE <<>>),
              path, <<jobLog("Processing started", <<>>), jobLog("Starting OCR", <<>>)>>)
         /\ jpc' = [jpc EXCEPT ![path] = "ocr"]
         /\ tasks' = [tasks EXCEPT ![path] = NoTasks]
         /\ stageRuns' = {sr \in stageRuns : sr[1] # path} \cup {<<path, "ocr">>}
         /\ writer' = assigned(writer, {"progressPercent", "currentStep",
                                        "currentOutputFolder"}, path)
    /\ starts' = starts + 1
    /\ UNCHANGED <<coreVars, surface, selectedPdfPath, processOptions, notices,
                   folderFiles, selectedWhile, progress>>

\* processPDF resolves: processPaper from there to the await of Promise.all,
\* or to its end when OCR failed or no stage is enabled
OcrReturn(path, r) ==
    /\ surface = "sidebar"
    /\ jpc[path] = "ocr"
    /\ folderFiles' = wrote(folderFiles, r.wrote, outputFolderOf(path),
                            {"original.md", "metadata.json"})
    /\ LET runTranslation == processOptions.translate
           runBlog == processOptions.blog
       IN IF ~r.success \/ ~r.outputFolder
             THEN /\ finished(path, <<"OCR failed">> \o r.error, ocrPercent(30),
                              logged(processLogs, path, <<jobLog("OCR failed", r.error)>>), {})
                  /\ UNCHANGED <<currentOutputFolder, tasks, stageRuns>>
          ELSE IF runTranslation \/ runBlog
             THEN /\ processingJobs' = [processingJobs EXCEPT ![path] =
                        <<[processingJobs[path][1] EXCEPT
                              !.outputFolder = <<outputFolderOf(path)>>]>>]
                  /\ currentOutputFolder' = <<outputFolderOf(path)>>
                  /\ progressPercent' = 350
                  /\ currentStep' = "Step 2-3: Translation & Blog"
                  /\ processLogs' = logged(processLogs, path,
                       <<jobLog("OCR complete", <<outputFolderOf(path)>>)>>
                       \o (IF runTranslation
                              THEN <<jobLog("Starting translation", <<>>)>> ELSE <<>>)
                       \o (IF runBlog
                              THEN <<jobLog("Starting blog generation", <<>>)>>
                              ELSE <<>>))
                  /\ tasks' = [tasks EXCEPT ![path] =
                        [translation |-> IF runTranslation THEN "running" ELSE "none",
                         blog |-> IF runBlog THEN "running" ELSE "none"]]
                  /\ stageRuns' = stageRuns
                        \cup {<<path, n>> : n \in {m \in TaskNames :
                                 (m = "translation" /\ runTranslation)
                                     \/ (m = "blog" /\ runBlog)}}
                  /\ jpc' = [jpc EXCEPT ![path] = "tasks"]
                  /\ writer' = assigned(writer, {"progressPercent", "currentStep",
                                                 "currentOutputFolder"}, path)
                  /\ UNCHANGED <<selectedPdfPath, notices, selectedWhile>>
          ELSE /\ finished(path, <<>>, 1000,
                     logged(processLogs, path,
                            <<jobLog("OCR complete", <<outputFolderOf(path)>>),
                              jobLog("Translation & Blog skipped", <<>>)>>),
                     {"currentOutputFolder"})
               /\ currentOutputFolder' = <<outputFolderOf(path)>>
               /\ UNCHANGED <<tasks, stageRuns>>
    /\ UNCHANGED <<coreVars, surface, processOptions, starts, progress>>

\* translate or generate resolves: the rest of that task
TaskReturn(path, name, r) ==
    /\ surface = "sidebar"
    /\ jpc[path] = "tasks" /\ tasks[path][name] = "running"
    /\ tasks' = [tasks EXCEPT ![path][name] = IF r.success THEN "done" ELSE "failed"]
    /\ folderFiles' = wrote(folderFiles, r.wrote, outputFolderOf(path), {artifactOf(name)})
    /\ processLogs' = logged(processLogs, path,
          <<IF r.success THEN jobLog("complete", <<name>>)
                         ELSE jobLog("warning", <<name>> \o r.error)>>)
    /\ UNCHANGED <<coreVars, surface, selectedPdfPath, processOptions, processingJobs,
                   progressPercent, currentStep, currentOutputFolder, notices, jpc,
                   stageRuns, starts, writer, selectedWhile, progress>>

\* Promise.race in the place of Promise.all: the first task to end ends the wait
CompleteAtFirst(path) ==
    /\ surface = "sidebar"
    /\ jpc[path] = "tasks"
    /\ \E n \in TaskNames : tasks[path][n] # "running"
    /\ finished(path, <<>>, 1000, processLogs, {})
    /\ UNCHANGED <<coreVars, surface, processOptions, currentOutputFolder, tasks,
                   stageRuns, folderFiles, starts, progress>>

\* Promise.all(tasks) resolves: processPaper from there to its end
Complete(path) ==
    /\ surface = "sidebar"
    /\ jpc[path] = "tasks"
    /\ \A n \in TaskNames : tasks[path][n] # "running"
    /\ finished(path, <<>>, 1000, processLogs, {})
    /\ UNCHANGED <<coreVars, surface, processOptions, currentOutputFolder, tasks,
                   stageRuns, folderFiles, starts, progress>>

\* ProgressModal: its header, message, the class of the message, its log
modal(title) == [title |-> title, message |-> "Initializing...", cls |-> "", logs |-> <<>>]
setProgress(m, message) == [m EXCEPT !.message = message, !.logs = Append(@, message)]
addLog(m, message) == [m EXCEPT !.logs = Append(@, message)]
updateTitle(m, title) == [m EXCEPT !.title = title]
complete(m, message) == [setProgress(m, message) EXCEPT !.cls = "complete"]
error(m, message) == [m EXCEPT !.message = <<"Error">> \o message, !.cls = "error"]

pipelineVars == <<selectedPdfPath, processOptions, processingJobs, progressPercent,
                  currentStep, currentOutputFolder, processLogs, notices, tasks, writer,
                  selectedWhile>>

\* executeFullPipeline up to the first suspension of processPDF; one call per
\* file at a time
ExecuteFullPipeline(file) ==
    /\ surface = "command"
    /\ starts < MaxStarts
    /\ jpc[file] = "idle"
    /\ progress' = [progress EXCEPT ![file] =
          <<setProgress(updateTitle(modal("Full pipeline"), "Step 1/3: OCR"),
                        <<"[OCR] Reading PDF file">>)>>]
    /\ jpc' = [jpc EXCEPT ![file] = "ocr"]
    /\ stageRuns' = {sr \in stageRuns : sr[1] # file} \cup {<<file, "ocr">>}
    /\ starts' = starts + 1
    /\ UNCHANGED <<coreVars, surface, pipelineVars, folderFiles>>

\* processPDF resolves: executeFullPipeline from there to the call of translate
PipelineOcrReturn(file, r) ==
    /\ surface = "command"
    /\ jpc[file] = "ocr"
    /\ folderFiles' = wrote(folderFiles, r.wrote, outputFolderOf(file),
                            {"original.md", "metadata.json"})
    /\ IF ~r.success \/ ~r.outputFolder
          THEN /\ progress' = [progress EXCEPT ![file] =
                     <<error(@[1], <<"OCR failed">> \o r.error)>>]
               /\ jpc' = [jpc EXCEPT ![file] = "idle"]
               /\ UNCHANGED stageRuns
          ELSE /\ progress' = [progress EXCEPT ![file] =
                     <<updateTitle(@[1], "Step 2/3: Translation")>>]
               /\ jpc' = [jpc EXCEPT ![file] = "translate"]
               /\ stageRuns' = stageRuns \cup {<<file, "translation">>}
    /\ UNCHANGED <<coreVars, surface, pipelineVars, starts>>

\* translate resolves: executeFullPipeline from there to the call of generate,
\* or to its end
PipelineTranslateReturn(file, r) ==
    /\ surface = "command"
    /\ jpc[file] = "translate"
    /\ folderFiles' = wrote(folderFiles, r.wrote, outputFolderOf(file),
                            {artifactOf("translation")})
    /\ IF ~r.success
          THEN /\ progress' = [progress EXCEPT ![file] =
                     <<error(@[1], <<"Translation failed">> \o r.error)>>]
               /\ jpc' = [jpc EXCEPT ![file] = "idle"]
               /\ UNCHANGED stageRuns
          ELSE IF settings.enableBlog
          THEN /\ progress' = [progress EXCEPT ![file] =
                     <<updateTitle(@[1], "Step 3/3: Blog generation")>>]
               /\ jpc' = [jpc EXCEPT ![file] = "blog"]
               /\ stageRuns' = stageRuns \cup {<<file, "blog">>}
          ELSE /\ progress' = [progress EXCEPT ![file] =
                     <<complete(setProgress(addLog(@[1], <<"Blog generation skipped">>),
                                            <<"Blog generation skipped">>),
                                <<"Full pipeline complete!">>)>>]
               /\ jpc' = [jpc EXCEPT ![file] = "idle"]
               /\ UNCHANGED stageRuns
    /\ UNCHANGED <<coreVars, surface, pipelineVars, starts>>

\* generate resolves: executeFullPipeline from there to its end
PipelineBlogReturn(file, r) ==
    /\ surface = "command"
    /\ jpc[file] = "blog"
    /\ folderFiles' = wrote(folderFiles, r.wrote, outputFolderOf(file), {artifactOf("blog")})
    /\ progress' = [progress EXCEPT ![file] =
          <<complete(IF r.success THEN @[1]
                                  ELSE addLog(@[1], <<"Blog generation warning">> \o r.error),
                     <<"Full pipeline complete!">>)>>]
    /\ jpc' = [jpc EXCEPT ![file] = "idle"]
    /\ UNCHANGED <<coreVars, surface, pipelineVars, stageRuns, starts>>

\* ------------------------------------------------------------------ specifications

StaleFiles == {<<>>, <<<<"old">>>>}

InitChunk ==
    /\ job = "chunker" /\ tagRegExp = "groupClosed" /\ settings = NoSettings
    /\ cstep = "input" /\ cdoc \in Docs /\ cpages = <<>> /\ cunits = <<>>
    /\ LedgerEmpty /\ JobsOff /\ vault = EmptyVault /\ saves = <<>>
    /\ TranslationOff /\ BlogOff /\ ViewOff /\ OcrOff

NextChunk == Chunk

SpecChunk == InitChunk /\ [][NextChunk]_vars

InitLedger ==
    /\ job = "ledger" /\ tagRegExp = "groupClosed" /\ settings = NoSettings
    /\ ChunkerOff /\ LedgerEmpty /\ JobsOff /\ vault = EmptyVault /\ saves = <<>>
    /\ TranslationOff /\ BlogOff /\ ViewOff /\ OcrOff

NextLedger == (\E params \in LedgerParams : RecordUsage(params)) \/ ResetSession

SpecLedger == InitLedger /\ [][NextLedger]_vars

\* the ledger with listeners that register and unregister between its calls
NextListeners ==
    \/ \E params \in {p \in LedgerParams : p.usage.promptTokens = 1 /\ p.model # mUnlisted} :
          RecordUsage(params)
    \/ ResetSession
    \/ \E callback \in Callbacks : OnChange(callback)
    \/ \E callback \in Callbacks : OffChange(callback)

SpecListeners == InitLedger /\ [][NextListeners]_vars

\* the ledger with a client that keeps the stats it obtained and writes to them
NextSnapshots ==
    \/ \E params \in {p \in LedgerParams : p.usage.promptTokens = 1 /\ p.model = mGrok} :
          RecordUsage(params)
    \/ ResetSession
    \/ GetSessionStats
    \/ \E field \in SnapshotFields : MutateSnapshot(field)
    \/ OnChange("keeper")
    \/ OffChange("keeper")

SpecSnapshots == InitLedger /\ [][NextSnapshots]_vars

\* the ledger with listeners that call offChange when they are notified
Unregistering == {"modal", "once", "closer"}

NextUnregistering ==
    \/ \E params \in {p \in LedgerParams : p.usage.promptTokens = 1 /\ p.model # mUnlisted} :
          RecordUsage(params)
    \/ ResetSession
    \/ \E callback \in Unregistering : OnChange(callback)
    \/ \E callback \in Unregistering : OffChange(callback)

SpecUnregistering == InitLedger /\ [][NextUnregistering]_vars

InitTranslate ==
    /\ job = "translate"
    /\ \E doc \in TDocs, stale \in StaleFiles :
          vault = [EmptyVault EXCEPT !["original.md"] = <<doc>>,
                                     !["translated_raw.md"] = stale]
    /\ TranslationIdle \/ TranslationAtCommand
    /\ BlogOff /\ OcrOff

InitBlog ==
    /\ job = "blog"
    /\ \E original \in {<<>>, <<sText>>}, stale \in StaleFiles :
          vault = [EmptyVault EXCEPT !["original.md"] = original, !["blog.md"] = stale]
    /\ TranslationOff /\ BlogIdle /\ OcrOff
    /\ images = NoImages

\* the OCR key is set or not, whatever the other settings are
InitOcr ==
    /\ job = "ocr"
    /\ \E stale \in StaleFiles : vault = [EmptyVault EXCEPT !["original.md"] = stale]
    /\ TranslationOff /\ BlogOff /\ OcrIdle

Init ==
    /\ tagRegExp \in TagRegExps
    /\ settings \in SettingsChoices
    /\ ChunkerOff /\ LedgerEmpty /\ JobsOff /\ saves = <<>> /\ ViewOff
    /\ InitTranslate \/ InitBlog \/ InitOcr

Next ==
    \/ Translate
    \/ CopyChunk
    \/ TagThrows
    \/ Request
    \/ \E r \in Responses : ProviderReturn(r)
    \/ PageDone
    \/ Sleep
    \/ Finalize
    \/ Generate
    \/ SectionRequest
    \/ \E r \in BlogResponses : SectionReturn(r)
    \/ BlogFinalize
    \/ TranslateCurrentFile
    \/ ProcessPDF
    \/ \E r \in OcrResponses : ProcessDocumentReturn(r)

Spec == Init /\ [][Next]_vars

InitView ==
    /\ job = "view" /\ tagRegExp = "groupClosed" /\ settings \in ViewSettings
    /\ ChunkerOff /\ LedgerEmpty /\ JobsOff /\ vault = EmptyVault /\ saves = <<>>
    /\ TranslationOff /\ BlogOff /\ OcrOff
    /\ surface \in {"sidebar", "command"}
    /\ processOptions = [ocr |-> TRUE, translate |-> TRUE, blog |-> settings.enableBlog]
    /\ ViewIdle

NextView ==
    \/ \E path \in PDFs : SelectPdf(path)
    \/ \E key \in {"translate", "blog"} : SetOption(key)
    \/ ClearLogs
    \/ ProcessPaper
    \/ \E path \in PDFs, r \in OcrResults : OcrReturn(path, r)
    \/ \E path \in PDFs, name \in TaskNames, r \in StageResults : TaskReturn(path, name, r)
    \/ \E path \in PDFs : Complete(path)
    \/ \E file \in PDFs : ExecuteFullPipeline(file)
    \/ \E file \in PDFs, r \in OcrResults : PipelineOcrReturn(file, r)
    \/ \E file \in PDFs, r \in StageResults : PipelineTranslateReturn(file, r)
    \/ \E file \in PDFs, r \in StageResults : PipelineBlogReturn(file, r)

SpecView == InitView /\ [][NextView]_vars

InitClient ==
    /\ job = "client" /\ tagRegExp = "groupClosed" /\ settings = NoSettings
    /\ ChunkerOff /\ LedgerEmpty /\ JobsOff /\ vault = EmptyVault /\ saves = <<>>
    /\ TranslationOff /\ BlogOff /\ ViewOff
    /\ opc = "off" /\ ocalls = <<>> /\ oresult = <<>> /\ notice = <<>>
    /\ apc = "idle" /\ aop \in Operations /\ anet \in {<<net>> : net \in Outcomes}
    /\ aresult = <<>>

NextClient == Call \/ Settle

SpecClient == InitClient /\ [][NextClient]_vars

\* generate for a paper folder that holds images; the section calls succeed or fail
InitImages ==
    /\ job = "blog" /\ tagRegExp = "groupClosed"
    /\ settings \in {st \in SettingsChoices : st.blogModel \in {mGemini, mGrok}}
    /\ ChunkerOff /\ LedgerEmpty /\ JobsOff /\ saves = <<>> /\ ViewOff
    /\ vault = [EmptyVault EXCEPT !["original.md"] = <<sText>>]
    /\ TranslationOff /\ BlogIdle /\ OcrOff
    /\ images = TwoImages

NextImages ==
    \/ Generate
    \/ \E r \in TriageResponses : TriageReturn(r)
    \/ \E r \in AnalysisResponses : AnalysisReturn(r)
    \/ SectionRequest
    \/ \E r \in {ok(<<"T">>, <<someUsage>>), failed(<<"HTTP 500">>)} : SectionReturn(r)
    \/ BlogFinalize

SpecImages == InitImages /\ [][NextImages]_vars

\* generate with sections long enough to outgrow the context of a section prompt
InitLongBlog ==
    /\ job = "blog" /\ tagRegExp = "groupClosed"
    /\ settings \in {st \in SettingsChoices : st.blogModel \in {mGemini, mGrok}}
    /\ ChunkerOff /\ LedgerEmpty /\ JobsOff /\ saves = <<>> /\ ViewOff
    /\ vault = [EmptyVault EXCEPT !["original.md"] = <<sText>>]
    /\ TranslationOff /\ BlogIdle /\ OcrOff
    /\ images = NoImages

NextLongBlog ==
    \/ Generate
    \/ SectionRequest
    \/ \E r \in {ok(LongText, <<someUsage>>), failed(<<"HTTP 500">>)} : SectionReturn(r)
    \/ BlogFinalize

SpecLongBlog == InitLongBlog /\ [][NextLongBlog]_vars

\* processPaper after the OCR step, with translation and blog enabled: both
\* services run on the folder, which may hold files of an earlier run
InitBoth ==
    /\ job = "both" /\ tagRegExp = "groupClosed"
    /\ settings \in {st \in SettingsChoices : st.translationModel = mGrok}
    /\ ChunkerOff /\ LedgerEmpty /\ JobsOff /\ saves = <<>> /\ ViewOff
    /\ \E doc \in {sText, sText \o sMarked}, raw \in StaleFiles, done \in StaleFiles :
          vault = [EmptyVault EXCEPT !["original.md"] = <<doc>>,
                                     !["translated_raw.md"] = raw,
                                     !["translated.md"] = done]
    /\ TranslationIdle /\ BlogIdle /\ OcrOff
    /\ images = NoImages

NextBoth ==
    \/ Translate
    \/ Request
    \/ \E r \in {ok(<<"T">>, <<someUsage>>), failed(<<"HTTP 500">>)} : ProviderReturn(r)
    \/ PageDone
    \/ Sleep
    \/ Finalize
    \/ GenerateSelect
    \/ GenerateRead
    \/ SectionRequest
    \/ \E r \in {ok(<<"T">>, <<someUsage>>)} : SectionReturn(r)
    \/ BlogFinalize

SpecBoth == InitBoth /\ [][NextBoth]_vars

\* the view processing several PDFs, each job running processPDF; the output
\* folder is empty or holds the folder of an earlier run
InitJobs ==
    /\ job = "jobs" /\ tagRegExp = "groupClosed"
    /\ settings \in {st \in SettingsChoices : "mistralApiKey" \in st.keys}
    /\ ChunkerOff /\ LedgerEmpty /\ vault = EmptyVault /\ saves = <<>> /\ ViewOff
    /\ TranslationOff /\ BlogOff /\ OcrOff
    /\ running = NoRuns
    /\ disk \in {{}, {outputFolderPath(pdf(<<"inbox">>, <<"b">>))}}

NextJobs ==
    \/ \E file \in PdfFiles : StartJob(file)
    \/ \E file \in PdfFiles : EnsureFolder(file)
    \/ \E file \in PdfFiles : CreateFolder(file)
    \/ \E file \in PdfFiles : SaveMarkdown(file)
    \/ \E file \in PdfFiles : SaveMetadata(file)

SpecJobs == InitJobs /\ [][NextJobs]_vars

\* a paper is imported from the search tab and then run through OCR
InitImport ==
    /\ job = "import" /\ tagRegExp = "groupClosed"
    /\ settings \in SettingsChoices
    /\ ChunkerOff /\ LedgerEmpty /\ JobsOff /\ vault = EmptyVault /\ saves = <<>> /\ ViewOff
    /\ TranslationOff /\ BlogOff
    /\ opc = "import" /\ ocalls = <<>> /\ oresult = <<>> /\ notice = <<>> /\ AdapterOff

NextImport ==
    \/ \E paper \in Papers, downloaded \in BOOLEAN : ImportPaper(paper, downloaded)
    \/ ProcessPDF
    \/ \E r \in OcrResponses : ProcessDocumentReturn(r)

SpecImport == InitImport /\ [][NextImport]_vars

\* translate with outputs long enough to outgrow the context of a prompt: one
\* page with an image between two texts, two pages, two pages with an image at
\* the end of the first, three pages
LongDocs ==
    {sText \o sImage \o sText, sText \o sMarked, sText \o sImage \o sMarked,
     sMarked \o sMarked \o sMarked}

InitLongTranslate ==
    /\ job = "translate" /\ tagRegExp \in TagRegExps
    /\ settings \in {st \in SettingsChoices : st.translationModel = mGrok}
    /\ ChunkerOff /\ LedgerEmpty /\ JobsOff /\ saves = <<>> /\ ViewOff
    /\ \E doc \in LongDocs : vault = [EmptyVault EXCEPT !["original.md"] = <<doc>>]
    /\ TranslationIdle /\ BlogOff /\ OcrOff

NextLongTranslate ==
    \/ Translate
    \/ CopyChunk
    \/ TagThrows
    \/ Request
    \/ \E r \in {ok(LongText, <<someUsage>>), ok(<<"T">>, <<>>),
                  ok(fence \o newline \o fence, <<>>), failed(<<"HTTP 500">>)} :
          ProviderReturn(r)
    \/ PageDone
    \/ Sleep
    \/ Finalize

SpecLongTranslate == InitLongTranslate /\ [][NextLongTranslate]_vars

\* ------------------------------------------------------------------ claims: the chunker

\* the parts of a document between its page markers that are not blank
NonBlankParts(d) == SelectSeq(split(d, pageMarker, FALSE), NonBlank)

IsImageChunk(c) == exec(imagePattern, c, 0, TRUE) = [index |-> 0, end |-> Len(c)]

\* C1 as stated: the units of every document, concatenated in order, are the
\* document.
C1_AsStated == cstep = "chunked" => concat(cunits) = cdoc

\* C1: concatenated in order, the units of a document are the document itself
\* when fewer than two of its parts between page markers are non-blank (so also
\* with no page marker, no image, or an unfinished image reference at the end);
\* otherwise they are its non-blank parts, in order, without the page markers
\* and without the blank parts.
C1_UnitsConcat ==
    cstep = "chunked" =>
        concat(cunits) = IF Len(NonBlankParts(cdoc)) > 1
                         THEN concat(NonBlankParts(cdoc)) ELSE cdoc

\* a chunked document of two pages, one of them holding an image reference
\* between other chunks
C1_Witness ==
    /\ cstep = "chunked"
    /\ Len(cpages) = 2
    /\ \E j \in 2..Len(cunits) : IsImageChunk(cunits[j])

\* C8: for every page text P (every page of every document, and every document
\* taken as one page), the chunks of P concatenated in order are P.
C8_ChunksConcat ==
    cstep = "chunked" =>
        /\ concat(splitContentByImageMarkdown(cdoc)) = cdoc
        /\ \A j \in 1..Len(cpages) :
              concat(splitContentByImageMarkdown(cpages[j])) = cpages[j]

\* a page split into text, an image reference, and white space after it
C8_Witness ==
    /\ cstep = "chunked"
    /\ \E j \in 1..Len(cpages) :
          LET cs == splitContentByImageMarkdown(cpages[j])
          IN  Len(cs) = 3 /\ IsImageChunk(cs[2]) /\ NonBlank(cs[1]) /\ IsBlank(cs[3])

\* ------------------------------------------------------------------ claims: the ledger

\* the sum of f over a sequence of recorded calls
RECURSIVE SumSeq(_)
SumSeq(ns) == IF ns = <<>> THEN 0 ELSE ns[1] + SumSeq(Tail(ns))

Total(log, f(_)) == SumSeq([j \in 1..Len(log) |-> f(log[j])])

PromptTokens(p) == p.usage.promptTokens
CompletionTokens(p) == p.usage.completionTokens
CostOf(p) == calculateCost(p.model, p.usage).totalCost

\* the costs of the calls added one after the other, as the code adds them
RECURSIVE CostInOrder(_)
CostInOrder(log) ==
    IF log = <<>> THEN Zero
    ELSE fadd(CostInOrder(SubSeq(log, 1, Len(log) - 1)), CostOf(log[Len(log)]))

EntryOf(log) ==
    [input |-> Total(log, PromptTokens), output |-> Total(log, CompletionTokens),
     cost |-> CostInOrder(log), calls |-> Len(log)]

\* the sum of f over the entries of a table
RECURSIVE SumTable(_)
SumTable(ns) ==
    IF DOMAIN ns = {} THEN 0
    ELSE LET k == CHOOSE x \in DOMAIN ns : TRUE
         IN  ns[k] + SumTable([x \in DOMAIN ns \ {k} |-> ns[x]])

TableTotal(table, f(_)) == SumTable([k \in DOMAIN table |-> f(table[k])])

EntryInput(en) == en.input
EntryOutput(en) == en.output
EntryCalls(en) == en.calls

\* what adding the costs of the entries of a table one after the other can
\* give, over the orders in which the entries can be taken
RECURSIVE CostSums(_)
CostSums(table) ==
    IF DOMAIN table = {} THEN {Zero}
    ELSE UNION {{fadd(sum, table[k].cost) :
                    sum \in CostSums([x \in DOMAIN table \ {k} |-> table[x]])} :
                k \in DOMAIN table}

TokensAndCallsAdd ==
    /\ sessionStats.totalInputTokens = Total(usageLog, PromptTokens)
    /\ sessionStats.totalOutputTokens = Total(usageLog, CompletionTokens)
    /\ sessionStats.totalCalls = Len(usageLog)
    /\ \A t \in {sessionStats.byProvider, sessionStats.byFeature} :
          /\ TableTotal(t, EntryInput) = sessionStats.totalInputTokens
          /\ TableTotal(t, EntryOutput) = sessionStats.totalOutputTokens
          /\ TableTotal(t, EntryCalls) = sessionStats.totalCalls

\* C4 as stated: in every state, the totals are the sums over the calls
\* recorded since the last reset, the cost included, and the per-provider and
\* the per-feature entries add up to the totals, the cost included.
C4_AsStated ==
    /\ TokensAndCallsAdd
    /\ sessionStats.totalCost = CostInOrder(usageLog)
    /\ sessionStats.totalCost \in CostSums(sessionStats.byProvider)
    /\ sessionStats.totalCost \in CostSums(sessionStats.byFeature)

\* C4: in every state (recordUsage and resetSession run to their end without
\* yielding, so these are the states a job or an observer can read), the token
\* totals and the call total are the sums over the calls recorded since the last
\* reset, the per-provider and the per-feature entries add up to them, and the
\* listeners were notified of just these stats.  Costs are floating-point: the
\* total cost, and the cost of each entry, is what adding the costs of its calls
\* one after the other with rounding gives.
C4_LedgerSums ==
    /\ TokensAndCallsAdd
    /\ sessionStats.totalCost = CostInOrder(usageLog)
    /\ DOMAIN sessionStats.byProvider = {usageLog[j].provider : j \in 1..Len(usageLog)}
    /\ DOMAIN sessionStats.byFeature = {usageLog[j].feature : j \in 1..Len(usageLog)}
    /\ \A k \in DOMAIN sessionStats.byProvider :
          sessionStats.byProvider[k] =
              EntryOf(SelectSeq(usageLog, LAMBDA p : p.provider = k))
    /\ \A k \in DOMAIN sessionStats.byFeature :
          sessionStats.byFeature[k] =
              EntryOf(SelectSeq(usageLog, LAMBDA p : p.feature = k))
    /\ notified = sessionStats

\* three calls recorded, of two providers and for two features
C4_Witness ==
    /\ job = "ledger"
    /\ Len(usageLog) = 3
    /\ DOMAIN sessionStats.byProvider = {"xAI", "Google"}
    /\ DOMAIN sessionStats.byFeature = {"translation", "blog"}

\* ------------------------------------------------------------------ claims: the translation stage

OnDisk == IF Exists(vault, "translated_raw.md") THEN Content(vault, "translated_raw.md") ELSE <<>>

Returned(c) == c.result # <<>>
Succeeded(c) == Returned(c) /\ c.result[1].success /\ c.result[1].data # <<>>
Failed(c) == Returned(c) /\ ~Succeeded(c)

\* what translated_raw.md holds while page p is translated
CheckpointBefore(p) ==
    IF p = 1 THEN startPlaceholder(Len(pages))
    ELSE progressHeader(p - 1, Len(pages)) \o join(SubSeq(translations, 1, p - 1), paragraphBreak)

ProgressHeaders == {<<>>} \cup {progressHeader(i, Len(pages)) : i \in 1..Len(pages)}

\* content is, after a progress header or none, the output of the pages before
\* the call c and of c's page up to and with c's output, and whatever follows
HoldsOutputOf(content, c) ==
    \E h \in ProgressHeaders :
        IsPrefix(h \o join(Append(SubSeq(translations, 1, c.page - 1), c.after), paragraphBreak),
                 content)

IsFailure(res) == res # <<>> /\ ~res[1].success

UnitSaves == SelectSeq(saves, LAMBDA w : w.kind = "unit")

HeaderOf(w) == IF job = "translate" THEN progressHeader(w.unit, Len(pages)) ELSE <<>>
NoteOf(w) == IF job = "blog" THEN progressNote(w.unit) ELSE <<>>

\* the checkpoint w without its progress marking
BodyOf(w) == SubSeq(w.content, Len(HeaderOf(w)) + 1, Len(w.content) - Len(NoteOf(w)))

KeyOk == checkApiKey(settings.translationModel, settings) = <<>>

\* the chunks of the document that are neither blank nor an image reference
TextUnits == SelectSeq(chunksOf(pages), LAMBDA c : NonBlank(c) /\ ~IsImageChunk(c))

\* C6 as stated: every call but the last has returned; the calls are, in order,
\* for the text units of the document, one each; and translate ends only when
\* every text unit has had its call or the last call failed (or without any
\* call, for want of the API key).
C6_AsStated ==
    job = "translate" =>
        /\ \A j \in 1..(Len(callLog) - 1) : Returned(callLog[j])
        /\ Len(callLog) <= Len(TextUnits)
        /\ \A j \in 1..Len(callLog) : callLog[j].text = TextUnits[j]
        /\ tpc = "done" /\ KeyOk =>
              \/ Len(callLog) = Len(TextUnits) /\ \A j \in 1..Len(callLog) : Succeeded(callLog[j])
              \/ callLog # <<>> /\ Failed(callLog[Len(callLog)])

\* the output for the k-th chunk of page p
OutputOf(p, k, chunk) ==
    IF IsBlank(chunk) \/ IsImageChunk(chunk) THEN chunk
    ELSE LET c == CHOOSE c \in {callLog[j] : j \in 1..Len(callLog)} :
                      c.page = p /\ c.chunk = k
         IN  stripCodeFence(c.result[1].data)

\* the output for the first n chunks of page p
PageOutput(p, chunks, n) == concat([k \in 1..n |-> OutputOf(p, k, chunks[k])])

OutputsInPlace ==
    /\ tpc # "request" => translated = PageOutput(pi, pageChunks, ck - 1)
    /\ \A p \in 1..Len(translations) :
          LET chunks == splitContentByImageMarkdown(pages[p])
          IN  translations[p] = PageOutput(p, chunks, Len(chunks))

\* C7 as stated: no call is for an image reference; the output of a page is
\* its chunks in order, each image reference as it is and each text chunk as the
\* provider gave it back; and translate does not end at an image reference.
C7_AsStated ==
    /\ \A j \in 1..Len(callLog) : ~IsImageChunk(callLog[j].text)
    /\ OutputsInPlace
    /\ tpc = "done" /\ ck \in 1..Len(pageChunks) => ~IsImageChunk(pageChunks[ck])

\* the parts of the document between its page markers
PartsOf(d) == split(d, pageMarker, FALSE)

Original == IF Exists(vault, "original.md") THEN Content(vault, "original.md") ELSE <<>>

optionOf(name) == IF name = "translation" THEN processOptions.translate ELSE processOptions.blog

ReportsComplete(p) ==
    /\ Len(notices'[p]) = Len(notices[p]) + 1
    /\ notices'[p][Len(notices'[p])] = <<"Processing complete">>

Running(p) == {n \in TaskNames : tasks[p][n] = "running"}

\* C11: in processPaper the enabled stages among translation and blog are
\* started in one step, so that they are in flight together, and the step that
\* reports the job complete (progress 100, the completion notice, the job
\* leaving processingJobs) is taken only when none of its tasks is still
\* running, whatever their results were; while a task runs the job stays in
\* processingJobs.
C11_JoinBeforeComplete ==
    [][\A p \in PDFs :
          /\ ReportsComplete(p) =>
                /\ Running(p) = {}
                /\ progressPercent' = 1000
                /\ processingJobs[p] # <<>> /\ processingJobs'[p] = <<>>
          /\ (processingJobs[p] # <<>> /\ processingJobs'[p] = <<>>) => Running(p) = {}
          /\ \A n \in TaskNames :
                (tasks[p][n] # "running" /\ tasks'[p][n] = "running") =>
                    \A m \in TaskNames : optionOf(m) <=> tasks'[p][m] = "running"]_vars

\* a job whose two tasks ran together is complete, one of the tasks having failed
C11_Witness ==
    \E p \in PDFs :
        /\ tasks[p] \in {[translation |-> "done", blog |-> "failed"],
                        [translation |-> "failed", blog |-> "done"]}
        /\ processingJobs[p] = <<>>
        /\ notices[p] # <<>> /\ notices[p][Len(notices[p])] = <<"Processing complete">>
        /\ \E i \in DOMAIN processLogs[p] : processLogs[p][i][1] = "warning"

StepOf(p) == jpc'[p] # jpc[p] \/ tasks'[p] # tasks[p]

SetByOther(f, p) == writer[f] \in InFlight \ {p}

\* C12: a step of a job changes neither the progress percent, the current step
\* or the output folder that another job in flight has set, nor the selected
\* PDF that the user has chosen since the job started, nor the entry of
\* another job in processingJobs.
C12_AsStated ==
    [][\A p \in PDFs : StepOf(p) =>
          /\ SetByOther("progressPercent", p) => progressPercent' = progressPercent
          /\ SetByOther("currentStep", p) => currentStep' = currentStep
          /\ SetByOther("currentOutputFolder", p) =>
                currentOutputFolder' = currentOutputFolder
          /\ p \in selectedWhile => selectedPdfPath' = selectedPdfPath
          /\ \A q \in PDFs \ {p} : processingJobs'[q] = processingJobs[q]]_vars

StageEnds(f, stage) == jpc[f] = stage /\ jpc'[f] # stage

TaskFails(p, n) == tasks[p][n] = "running" /\ tasks'[p][n] = "failed"

\* C20: once OCR has succeeded, a failure of the translation stage or of the
\* blog stage does not fail the job: the other stage still runs, the job ends
\* reported complete with the error of the failed stage in its log, and no file
\* written so far leaves the disk.  For executeFullPipeline: the end of the
\* translation stage never leaves the modal in error and leads to the blog stage
\* when it is enabled.  For processPaper: a task that fails leaves the job in
\* flight and the other task as it was, logs a warning with its error, and the
\* job then ends with the completion notice.
C20_AsStated ==
    [][/\ folderFiles \subseteq folderFiles'
       /\ \A f \in PDFs :
             /\ (surface = "command" /\ StageEnds(f, "translate")) =>
                   /\ progress'[f][1].cls # "error"
                   /\ settings.enableBlog => jpc'[f] = "blog"
             /\ (surface = "command" /\ StageEnds(f, "blog")) =>
                   progress'[f][1].cls = "complete"
             /\ \A n \in TaskNames : TaskFails(f, n) =>
                   /\ processingJobs'[f] # <<>>
                   /\ \A m \in TaskNames \ {n} : tasks'[f][m] = tasks[f][m]
                   /\ processLogs'[f][Len(processLogs'[f])][1] = "warning"
             /\ (surface = "sidebar" /\ StageEnds(f, "tasks")) => ReportsComplete(f)]_vars

\* ------------------------------------------------------------------ claims: usage recording

\* the calls of a log that have returned with token-usage counts
WithUsage(log) ==
    Cardinality({i \in DOMAIN log : Returned(log[i]) /\ log[i].result[1].usage # <<>>})

ReturnedWithUsage ==
    WithUsage(callLog) + WithUsage(bcalls) + WithUsage(icalls)
        + Cardinality({i \in DOMAIN ocalls : ocalls[i].usage # <<>>})

\* C13: every provider call of the OCR, translation and blog stages that has
\* returned with token-usage counts has exactly one recordUsage entry: the
\* ledger's totalCalls, and the number of recordUsage calls, equal the number of
\* such provider calls.
C13_AsStated ==
    /\ sessionStats.totalCalls = ReturnedWithUsage
    /\ Len(usageLog) = ReturnedWithUsage

\* ------------------------------------------------------------------ claims: the API keys

keyMessage(key) ==
    CASE key = "grokApiKey" -> <<"xAI Grok API key not configured">>
      [] key = "openaiApiKey" -> <<"OpenAI API key not configured">>
      [] key = "anthropicApiKey" -> <<"Anthropic API key not configured">>
      [] key = "geminiApiKey" -> <<"Gemini API key not configured">>
      [] key = "deepseekApiKey" -> <<"DeepSeek API key not configured">>
      [] key = "groqApiKey" -> <<"Groq API key not configured">>

KeyMessages == {keyMessage(createClient(m).apiKey) : m \in {mGrok, mGemini, mDistill, mUnlisted}}

\* the operation for a model was refused: by the command, or by checkApiKey
Refused(result) ==
    \/ notice # <<>>
    \/ result # <<>> /\ ~result[1].success /\ result[1].error \in KeyMessages

\* C14: when the key that the calls for the selected model use is not
\* configured, translate and generate (for a paper that has content) issue no
\* provider call and end in a failure whose message names that key; when it is
\* configured, the operation is not refused for another key.
C14_AsStated ==
    /\ job = "translate" =>
          LET key == createClient(settings.translationModel).apiKey IN
            IF key \notin settings.keys
               THEN /\ callLog = <<>>
                    /\ tpc = "done" =>
                          tresult = <<[success |-> FALSE, error |-> keyMessage(key)]>>
               ELSE ~Refused(tresult)
    /\ (job = "blog" /\ Exists(vault, "original.md")) =>
          LET key == createClient(settings.blogModel).apiKey IN
            IF key \notin settings.keys
               THEN /\ bcalls = <<>>
                    /\ bpc = "done" =>
                          bresult = <<[success |-> FALSE, error |-> keyMessage(key)]>>
               ELSE ~Refused(bresult)

\* ------------------------------------------------------------------ claims: the provider clients

\* the response has what the operation reads from it
WellFormed(op, net) ==
    /\ ~net.offline /\ Is2xx(net.status) /\ net.body.json = "object"
    /\ IF op = "processDocument"
          THEN net.body.pages # <<>> /\ markdownOf(net.body.pages[1]) # <<>>
          ELSE net.body.text # <<>> /\ net.body.text[1] # <<>>

NonEmptyData(op, data) ==
    IF op = "processDocument" THEN data.markdown # <<>> ELSE data # <<>>

\* C15: a client operation resolves to a result and throws nothing; for a
\* network failure, a status that is not 2xx or a malformed body the result has
\* success false and an error message; a result with success true has
\* non-empty data.
C15_AsStated ==
    apc = "done" =>
        LET r == aresult[1] IN
        /\ "success" \in DOMAIN r
        /\ ~WellFormed(aop, anet[1]) => (~r.success /\ r.error # <<>>)
        /\ r.success => NonEmptyData(aop, r.data)

\* ------------------------------------------------------------------ claims: the blog images

AnalysisCalls == {k \in DOMAIN icalls : icalls[k].kind = "analysis"}

TierOf(name) == {images[i].tier : i \in {j \in DOMAIN images : images[j].name = name}}

TriageReturned == icalls # <<>> /\ icalls[1].result # <<>>

AnalysisOver == TriageReturned /\ bpc \in {"section", "request", "final", "done"}

\* C16: in a blog run with images, no analysis call is issued for an image of
\* tier 3 and no section call has a tier-3 image attached; once the analysis
\* is over, every image whose tier is not 3 has had exactly one analysis call,
\* so the calls number the images whose tier is not 3.
C16_Tier3NeverSent ==
    /\ \A k \in AnalysisCalls : 3 \notin TierOf(icalls[k].image)
    /\ \A j \in DOMAIN bcalls : \A name \in bcalls[j].attached : 3 \notin TierOf(name)
    /\ AnalysisOver =>
          /\ \A i \in DOMAIN images :
                Cardinality({k \in AnalysisCalls : icalls[k].image = images[i].name})
                    = IF images[i].tier # 3 THEN 1 ELSE 0
          /\ Cardinality(AnalysisCalls)
                = Cardinality({i \in DOMAIN images : images[i].tier # 3})

\* a run has ended in which one image was of tier 3 and another was analysed
\* and attached to its section's call
C16_Witness ==
    /\ bpc = "done" /\ TriageReturned
    /\ \E i \in DOMAIN images : images[i].tier = 3
    /\ AnalysisCalls # {}
    /\ \E j \in DOMAIN bcalls : bcalls[j].attached # {}

\* the items of the triage response, none when it failed or did not parse
TriageItems ==
    LET r == icalls[1].result[1] IN
    IF r.success /\ r.data.json = "array" THEN r.data.items ELSE <<>>

TriageFailed ==
    TriageReturned /\ LET r == icalls[1].result[1] IN ~r.success \/ r.data.json # "array"

\* C17: once the triage call has returned, an image the response gave no tier
\* has tier 2 and an image it gave no section has the default section; when
\* the call failed or its response did not parse that is every image, and the
\* run goes on: every image gets its analysis call and every section its call.
C17_DefaultsAfterTriage ==
    TriageReturned =>
        /\ \A i \in DOMAIN images :
              /\ (~\E k \in DOMAIN TriageItems :
                      TriageItems[k].filename = images[i].name /\ TriageItems[k].tier # 0)
                    => images[i].tier = 2
              /\ (~\E k \in DOMAIN TriageItems :
                      TriageItems[k].filename = images[i].name /\ TriageItems[k].section # <<>>)
                    => images[i].section = <<DefaultSection>>
        /\ TriageFailed =>
              /\ bpc \in {"analysis", "section", "request", "final", "done"}
              /\ AnalysisOver => Cardinality(AnalysisCalls) = Len(images)
              /\ bpc = "done" =>
                    /\ Len(bcalls) = Len(SECTION_ORDER)
                    /\ bresult # <<>> /\ bresult[1].success

\* a run has ended whose triage call failed
C17_Witness ==
    /\ bpc = "done" /\ TriageFailed /\ ~icalls[1].result[1].success
    /\ Cardinality(AnalysisCalls) = Len(images) /\ images # <<>>

\* ------------------------------------------------------------------ claims: the ledger's listeners

\* C18: whatever the registered callbacks do, throw included, a recordUsage
\* call returns the cost of the call, leaves the ledger with the totals the
\* call adds to those before it, and has every registered callback called,
\* in registration order, with these totals.
C18_ThrowingCallbackContained ==
    [][Len(usageLog') > Len(usageLog) =>
        LET params == usageLog'[Len(usageLog')] IN
        /\ returned' = <<calculateCost(params.model, params.usage)>>
        /\ sessionStats' = recordedStats(sessionStats, params)
        /\ notified' = sessionStats'
        /\ invoked' = onChangeCallbacks]_vars

\* recordUsage has returned after a notification in which the first callback
\* threw and the one registered after it was called
C18_Witness ==
    /\ usageLog # <<>> /\ returned # <<>>
    /\ Len(onChangeCallbacks) = 2 /\ invoked = onChangeCallbacks
    /\ Throws(onChangeCallbacks[1]) /\ ~Throws(onChangeCallbacks[2])
    /\ sessionStats.totalCalls = Len(usageLog)

\* ------------------------------------------------------------------ claims: the delay

\* the sleeps that were over before call j was issued
SleepsBefore(j) == {k \in DOMAIN sleeps : sleeps[k].calls < j}

WrittenFile ==
    IF job = "translate" THEN "translated_raw.md"
    ELSE IF job = "blog" THEN "blog.md" ELSE "original.md"

\* the contents the run has written, and the one a stale file holds
SavedContents == {saves[i].content : i \in DOMAIN saves} \cup {<<"old">>}

ImageFree(text) == splitContentByImageMarkdown(text) = <<text>> /\ ~IsImageChunk(text)

\* the document is two non-blank, image-free page texts around one page marker
TwoPlainPages ==
    /\ Len(PartsOf(Original)) = 2
    /\ \A k \in 1..2 : NonBlank(PartsOf(Original)[k]) /\ ImageFree(PartsOf(Original)[k])

\* the translation of the page of call c
TranslationOf(c) == stripCodeFence(c.result[1].data)

\* C22 as stated: a document without page marker is one page, the document;
\* a document of two non-blank, image-free page texts around one page marker is
\* two pages, and its run ends after two provider calls, or at a provider call
\* that failed; when both calls succeed translate returns success, and
\* translated_raw.md and the returned translation are the translation of page 1,
\* a blank line and the translation of page 2.
C22_AsStated ==
    (job = "translate" /\ pi >= 1) =>
        /\ Len(PartsOf(Original)) = 1 => pages = <<Original>>
        /\ TwoPlainPages =>
              /\ pages = PartsOf(Original)
              /\ Len(callLog) <= 2
              /\ tpc = "done" =>
                    \/ callLog # <<>> /\ Failed(callLog[Len(callLog)])
                    \/ /\ Len(callLog) = 2
                       /\ tresult[1].success
                       /\ tresult[1].translation
                             = TranslationOf(callLog[1]) \o paragraphBreak
                                  \o TranslationOf(callLog[2])
                       /\ OnDisk = tresult[1].translation

\* ------------------------------------------------------------------ claims: the context of a section

\* accumulatedContext after the first k sections
RECURSIVE Accumulated(_)
Accumulated(k) ==
    IF k = 0 THEN <<>> ELSE Accumulated(k - 1) \o paragraphBreak \o generatedSections[k]

Markers ==
    {startPlaceholder(Len(pages))[1]}
        \cup {progressHeader(i, Len(pages))[1] : i \in 1..(Len(pages) - 1)}

inProgress(content) == content # <<>> /\ content[1] \in Markers

\* C25 as stated: what generate has read as the paper, next to a running
\* translate, is the OCR text or a finished translation, of this run or of an
\* earlier one, and never the placeholder or a checkpoint with pages to come.
C25_AsStated ==
    (job = "both" /\ sourceContent # <<>>) =>
        /\ ~inProgress(sourceContent[1])
        /\ sourceContent[1] \in {Original, <<"old">>, join(translations, paragraphBreak)}

\* ------------------------------------------------------------------ claims: jobs in flight together

JobsInFlight == {file \in DOMAIN running : running[file].pc \notin {"done", "failed"}}

\* C26 as stated: two jobs in flight together have different output folders,
\* and no job fails on a create of a path that it had found absent.
C26_AsStated ==
    /\ \A f, g \in JobsInFlight : f # g => outputFolderPath(f) # outputFolderPath(g)
    /\ \A f \in DOMAIN running : running[f].pc # "failed"

\* ------------------------------------------------------------------ claims: stats objects handed out

\* C27 as stated: a recordUsage call changes nothing in a stats object that
\* was obtained before it, and a write to such an object changes nothing in
\* the ledger.
C27_AsStated ==
    [][/\ (held # <<>> /\ Len(usageLog') = Len(usageLog) + 1 /\ ~Keeps(onChangeCallbacks))
            => held' = held
       /\ (held # <<>> /\ held' # <<>> /\ usageLog' = usageLog
             /\ held'[1].taken = held[1].taken /\ held'[1].seen # held[1].seen)
            => sessionStats' = sessionStats]_vars

\* ------------------------------------------------------------------ claims: translated_raw.md when translate returns

\* translate returned the failure of a provider call
ProviderCallFailed ==
    /\ tresult # <<>> /\ ~tresult[1].success
    /\ callLog # <<>> /\ callLog[Len(callLog)].result # <<>>
    /\ LET r == callLog[Len(callLog)].result[1] IN ~r.success \/ r.data = <<>>

Occurrences(s, x) == Cardinality({i \in DOMAIN s : s[i] = x})

\* C29 as stated: a ledger update calls every callback that is registered
\* when its notification starts exactly once for each registration, also
\* when callbacks call offChange during the notification.
C29_AsStated ==
    [][usageLog' # usageLog =>
          \A callback \in Unregistering :
             Occurrences(invoked', callback) = Occurrences(onChangeCallbacks, callback)]_vars

\* ------------------------------------------------------------------ claims: the sidecar of an imported paper

\* the paper whose import selected the PDF
ImportedPapers ==
    {paper \in Papers : selectedPdfPath # <<>>
                          /\ selectedPdfPath[1].basename = importSlug(paper.title)}

\* C30 as stated: once OCR has run on an imported paper, the metadata the blog
\* stage reads has the title, authors, arXiv identifier and categories of the
\* import.
C30_AsStated ==
    (job = "import" /\ oresult # <<>> /\ oresult[1].success) =>
        \A paper \in ImportedPapers :
            /\ getMetadata(vault) # <<>>
            /\ LET metadata == getMetadata(vault)[1]
               IN  /\ {"title", "authors", "arxiv_id", "categories"} \subseteq DOMAIN metadata
                   /\ metadata.title = paper.title
                   /\ metadata.authors = paper.authors
                   /\ metadata.arxiv_id = paper.arxivId
                   /\ metadata.categories = paper.categories
====
